---- MODULE Spec2Model ----
(***************************************************************************)
(* A model of demongrep's persistent state and retrieval pipeline:         *)
(*   - the indexer (index, clear) and the incremental sync run by search,  *)
(*     over one project tree with a local and a global store;              *)
(*   - the DatabaseManager federation (search_all, hybrid_search_all).     *)
(***************************************************************************)
EXTENDS Integers, Sequences, FiniteSets, TLC

\* ------------------------------------------------------------------------
\* Bounds of the model
\* ------------------------------------------------------------------------

\* Largest chunk id a vector store hands out; runs that would need more ids
\* are not taken.
MaxId == 3

\* Chunks held by one store of a federated manager.
MaxChunks == 2

\* Hits the FTS index returns for the query.
MaxFts == 1

\* Largest limit and offset a federated search is called with.
MaxLimit == 2

MaxOffset == 2

\* ------------------------------------------------------------------------
\* The project tree and the stores
\* ------------------------------------------------------------------------

\* The indexable files of the project, in the walker's (sorted) order.
PathOrder == <<"a.rs", "b.rs">>

Paths == {PathOrder[i] : i \in 1..Len(PathOrder)}

Absent == "absent"

\* What a file on disk can hold.  The content stands for its own hash.
\*   "one", "two"  valid source giving one, two chunks
\*   "bad"         bytes that are not valid UTF-8 (read_to_string fails)
\*   "garbled"     text on which chunk_semantic returns an error
Contents == {"one", "two", "bad", "garbled"}

DbTypes == {"Local", "Global"}

Models == {"minilm-l6-q", "bge-small-q", "jina-code"}

DefaultModel == "jina-code"

dimensions(m) == IF m = "jina-code" THEN 768 ELSE 384

Ids == 1..MaxId

NoChunk == "-"

NoModel == "-"

NoMeta == [present |-> FALSE, hash |-> "-", ids |-> <<>>]

FileMeta(h, ids) == [present |-> TRUE, hash |-> h, ids |-> ids]

\* A store directory that does not exist.
NoStore ==
  [exists   |-> FALSE,
   chunks   |-> [i \in Ids |-> NoChunk],
   fts      |-> [i \in Ids |-> 0],
   fileMeta |-> [p \in Paths |-> NoMeta],
   dbMeta   |-> NoModel,
   metaJson |-> NoModel,
   nextId   |-> 1]

\* VectorStore::new on a path that does not exist yet: an empty store.
NewStore == [NoStore EXCEPT !.exists = TRUE]

Range(s) == {s[i] : i \in 1..Len(s)}

RECURSIVE Concat(_)
Concat(ss) == IF ss = <<>> THEN <<>> ELSE Head(ss) \o Concat(Tail(ss))

VARIABLES
  fs,        \* the project tree: path -> content or Absent
  stores,    \* DbTypes -> store
  projects,  \* TRUE iff projects.json maps the project to its global store
  last,      \* the last operation, its arguments and its outcome
  mgr,       \* DatabaseManager.databases: the loaded stores, as the query sees them
  call,      \* the last federated search: its arguments and what it returned
  cacheDb,   \* the "embeddings" table of one cache directory: key -> bytes
  cacheLog,  \* per (model, content hash): the vector last put through it
  cacheOp,   \* the last cache call, its handle, its argument and its result
  pure,      \* the last call of a pure function: its name, input and output
  svc,       \* one process: its threads, the models it loaded, the service mutex
  cacheStats \* one cache handle: its hit and miss counters, and the gets made

idxVars == <<fs, stores, projects, last>>

fedVars == <<mgr, call>>

cacheVars == <<cacheDb, cacheLog, cacheOp>>

vars == <<fs, stores, projects, last, mgr, call, cacheDb, cacheLog, cacheOp, pure, svc, cacheStats>>

\* ------------------------------------------------------------------------
\* Collaborators of the indexer: walker, chunker, file metadata, stores
\* ------------------------------------------------------------------------

\* FileWalker::walk: the files present in the tree, sorted by path.
Walk(tree) == SelectSeq(PathOrder, LAMBDA p : tree[p] # Absent)

\* std::fs::read_to_string succeeds on valid UTF-8 only.
read_to_string_ok(c) == c # "bad"

\* SemanticChunker::chunk_semantic returns Ok.
chunk_semantic_ok(c) == c # "garbled"

\* Number of chunks chunk_semantic emits for a readable file.
NumChunks(c) == CASE c = "one" -> 1 [] c = "two" -> 2 [] OTHER -> 0

\* FileMetaStore::check_file / VectorStore::check_file_needs_reindex:
\* (needs_reindex, old chunk ids) from the stored record and the live file.
check_file(fm, tree, p) ==
  [needs |-> (~fm[p].present) \/ fm[p].hash # tree[p],
   old   |-> fm[p].ids]

\* find_deleted_files: stored entries whose path is no longer on disk.
find_deleted_files(fm, tree) ==
  SelectSeq(PathOrder, LAMBDA p : fm[p].present /\ tree[p] = Absent)

\* VectorStore::delete_chunks: the ids leave the chunk table.
delete_chunks(chunks, ids) ==
  [i \in Ids |-> IF i \in ids THEN NoChunk ELSE chunks[i]]

\* VectorStore::insert_chunks_with_ids: fresh consecutive ids, never reused.
insert_ids(nextId, n) == [k \in 1..n |-> nextId + k - 1]

insert_chunks(chunks, ids, paths) ==
  [i \in Ids |-> IF \E k \in 1..Len(ids) : ids[k] = i
                 THEN paths[CHOOSE k \in 1..Len(ids) : ids[k] = i]
                 ELSE chunks[i]]

\* FtsStore::delete_chunk for each id, then commit.
fts_delete(fts, ids) == [i \in Ids |-> IF i \in ids THEN 0 ELSE fts[i]]

\* FtsStore::add_chunk for each id, then commit: one document per call.
fts_add(fts, ids) ==
  [i \in Ids |-> fts[i] + Cardinality({k \in 1..Len(ids) : ids[k] = i})]

\* VectorStore::get_db_metadata(expected_model, expected_dims): the stored
\* record, or the expected values when the store has none yet.
get_db_metadata(st, expected) ==
  IF st.dbMeta = NoModel THEN expected ELSE st.dbMeta

\* StoreStats
total_chunks(st) == Cardinality({i \in Ids : st.chunks[i] # NoChunk})

total_files(st) == Cardinality({p \in Paths : st.fileMeta[p].present})

LiveIds(st) == {i \in Ids : st.chunks[i] # NoChunk}

FtsIds(st) == {i \in Ids : st.fts[i] > 0}

MetaIds(st) == UNION {Range(st.fileMeta[p].ids) : p \in Paths}

\* ------------------------------------------------------------------------
\* index()
\* ------------------------------------------------------------------------

\* The checks without the one that guards a local run against a global store.
ExclusivityErrorLocalUnchecked(global, local_exists, global_exists) ==
  IF local_exists /\ global_exists THEN "both_exist"
  ELSE IF global /\ local_exists THEN "local_exists"
  ELSE "none"

\* The exclusivity checks at the head of index().
ExclusivityError(global, local_exists, global_exists) ==
  IF local_exists /\ global_exists THEN "both_exist"
  ELSE IF global /\ local_exists THEN "local_exists"
  ELSE IF (~global) /\ global_exists THEN "global_exists"
  ELSE "none"

\* A model check that compares the dimensions only.
ModelMismatchDimensionsOnly(db_meta, model) ==
  dimensions(db_meta) # dimensions(model)

\* The model check of an incremental run.
ModelMismatch(db_meta, model) ==
  db_meta # model \/ dimensions(db_meta) # dimensions(model)

\* Every discovered file is indexed again, changed or not.
FilesToIndexAll(st, tree, files, is_incremental) == files

\* files_to_index: the files whose check reports a change; all of them in a
\* full index.
FilesToIndex(st, tree, files, is_incremental) ==
  IF is_incremental
  THEN SelectSeq(files, LAMBDA p : check_file(st.fileMeta, tree, p).needs)
  ELSE files

\* The old chunk ids paired with a file of files_to_index.
OldChunkIds(st, tree, p, is_incremental) ==
  IF is_incremental THEN check_file(st.fileMeta, tree, p).old ELSE <<>>

FilesToDelete(st, tree, is_incremental) ==
  IF is_incremental THEN find_deleted_files(st.fileMeta, tree) ELSE <<>>

\* Phase 2: the chunks of one file; an unreadable or unparsable file gives
\* none.  Each chunk is named by the path it came from.
IndexChunkFile(tree, p) ==
  IF read_to_string_ok(tree[p]) /\ chunk_semantic_ok(tree[p])
  THEN [k \in 1..NumChunks(tree[p]) |-> p]
  ELSE <<>>

\* chunks_to_delete: old ids of the changed and of the deleted files.
ChunksToDelete(st, tree, to_index, to_delete, is_incremental) ==
  IF is_incremental
  THEN UNION {Range(OldChunkIds(st, tree, p, is_incremental)) : p \in Range(to_index)}
       \cup UNION {Range(st.fileMeta[p].ids) : p \in Range(to_delete)}
  ELSE {}

\* file_chunks.get(&file.path): the new ids whose chunk carries that path.
IdsOfFile(all_chunks, chunk_ids, p) ==
  LET idx == SelectSeq([k \in 1..Len(all_chunks) |-> k],
                       LAMBDA k : all_chunks[k] = p)
  IN [j \in 1..Len(idx) |-> chunk_ids[idx[j]]]

\* fts_chunks_to_delete: the old ids of the changed files, then those of the
\* deleted files.
FtsChunksToDelete(st, tree, to_index, to_delete, is_incremental) ==
  IF is_incremental
  THEN Concat([k \in 1..Len(to_index) |->
                 OldChunkIds(st, tree, to_index[k], is_incremental)])
       \o Concat([k \in 1..Len(to_delete) |-> st.fileMeta[to_delete[k]].ids])
  ELSE <<>>

FtsCall(fn, id) == [fn |-> fn, id |-> id]

\* Phase 4b: the calls index() makes on the FtsStore it opened, in order.
FtsCalls(fts_chunks_to_delete, chunk_ids) ==
  (IF fts_chunks_to_delete # <<>>
   THEN [k \in 1..Len(fts_chunks_to_delete) |->
           FtsCall("delete_chunk", fts_chunks_to_delete[k])]
        \o <<FtsCall("commit", 0)>>
   ELSE <<>>)
  \o [k \in 1..Len(chunk_ids) |-> FtsCall("add_chunk", chunk_ids[k])]
  \o <<FtsCall("commit", 0)>>

\* The FtsStore after the calls: deletes and adds collect in the writer and
\* reach the index at commit.
RECURSIVE fts_run(_, _, _)
fts_run(committed, pending, calls) ==
  IF calls = <<>> THEN committed
  ELSE LET c == Head(calls)
       IN IF c.fn = "commit" THEN fts_run(pending, pending, Tail(calls))
          ELSE IF c.fn = "delete_chunk"
          THEN fts_run(committed, fts_delete(pending, {c.id}), Tail(calls))
          ELSE fts_run(committed, fts_add(pending, <<c.id>>), Tail(calls))

\* The names of the calls, in order.
CallNames(calls) == [k \in 1..Len(calls) |-> calls[k].fn]

\* index() from "Open or create database" to its return, on the store st of
\* the chosen mode.
IndexStore(st, tree, files, is_incremental, model) ==
  LET opened      == IF st.exists THEN st ELSE NewStore
      to_index    == FilesToIndex(opened, tree, files, is_incremental)
      to_delete   == FilesToDelete(opened, tree, is_incremental)
      all_chunks  == Concat([k \in 1..Len(to_index) |->
                               IndexChunkFile(tree, to_index[k])])
      dead        == ChunksToDelete(opened, tree, to_index, to_delete,
                                    is_incremental)
      chunk_ids   == insert_ids(opened.nextId, Len(all_chunks))
      chunks2     == insert_chunks(delete_chunks(opened.chunks, dead),
                                   chunk_ids, all_chunks)
      fts_calls   == FtsCalls(FtsChunksToDelete(opened, tree, to_index, to_delete,
                                                  is_incremental),
                              chunk_ids)
      fts2        == fts_run(opened.fts, opened.fts, fts_calls)
      meta2       == [p \in Paths |->
                        IF p \in Range(to_delete) THEN NoMeta
                        ELSE IF p \in Range(to_index)
                        THEN FileMeta(tree[p], IdsOfFile(all_chunks, chunk_ids, p))
                        ELSE opened.fileMeta[p]]
  IN IF is_incremental /\ ModelMismatch(get_db_metadata(opened, model), model)
     THEN [exit |-> "model_mismatch", result |-> "err", store |-> opened,
           embedded |-> 0, fts_calls |-> <<>>]
     ELSE IF is_incremental /\ to_index = <<>> /\ to_delete = <<>>
     THEN [exit |-> "up_to_date", result |-> "ok", store |-> opened,
           embedded |-> 0, fts_calls |-> <<>>]
     ELSE [exit     |-> "done",
           result   |-> "ok",
           embedded |-> Len(all_chunks),
           fts_calls |-> CallNames(fts_calls),
           store    |-> [exists   |-> TRUE,
                         chunks   |-> chunks2,
                         fts      |-> fts2,
                         fileMeta |-> meta2,
                         dbMeta   |-> model,
                         metaJson |-> model,
                         nextId   |-> opened.nextId + Len(all_chunks)]]

\* The store an index() run works on, and the store of the other mode.
DbOf(global) == IF global THEN "Global" ELSE "Local"

Counterpart(global) == IF global THEN "Local" ELSE "Global"

Outcome(op, exit, result) ==
  [op |-> op, exit |-> exit, result |-> result, embedded |-> 0,
   sync |-> FALSE, vector_only |-> FALSE, deleted |-> {}, results |-> {},
   fts_calls |-> <<>>]

Index(global, dry_run, model) ==
  LET local_exists  == stores["Local"].exists
      global_exists == stores["Global"].exists
      excl  == ExclusivityError(global, local_exists, global_exists)
      db    == DbOf(global)
      files == Walk(fs)
      run   == IndexStore(stores[db], fs, files, stores[db].exists, model)
      out(exit, result, embedded) ==
        [Outcome("index", exit, result) EXCEPT !.embedded = embedded]
      done == [out(run.exit, run.result, run.embedded) EXCEPT
                 !.fts_calls = run.fts_calls]
  IN
  /\ IF excl # "none"
     THEN /\ last' = out(excl, "err", 0)
          /\ UNCHANGED <<stores, projects>>
     ELSE \* get_index_db_path records the project in projects.json
          \* (global mode)
          /\ projects' = (projects \/ global)
          /\ IF files = <<>>
             THEN last' = out("no_files", "ok", 0) /\ UNCHANGED stores
             ELSE IF dry_run
             THEN last' = out("dry_run", "ok", 0) /\ UNCHANGED stores
             ELSE /\ run.store.nextId <= MaxId + 1
                  /\ stores' = [stores EXCEPT ![db] = run.store]
                  /\ last' = done
  /\ UNCHANGED fs
  /\ UNCHANGED <<fedVars, cacheVars, pure, svc, cacheStats>>

\* ------------------------------------------------------------------------
\* clear()
\* ------------------------------------------------------------------------

\* get_search_db_paths: the stores that exist, local first.
get_search_db_paths(ss) ==
  SelectSeq(<<"Local", "Global">>, LAMBDA d : ss[d].exists)

\* find_project_databases: the stores of a project named in projects.json.
find_project_databases(ss, registered) ==
  IF registered
  THEN SelectSeq(<<"Global", "Local">>, LAMBDA d : ss[d].exists)
  ELSE <<>>

Clear(confirm, by_project) ==
  LET db_paths == IF by_project
                  THEN find_project_databases(stores, projects)
                  ELSE get_search_db_paths(stores)
  IN
  /\ IF db_paths = <<>>
     THEN last' = Outcome("clear", "no_db", "ok") /\ UNCHANGED <<stores, projects>>
     ELSE IF ~confirm
     THEN last' = Outcome("clear", "cancelled", "ok")
          /\ UNCHANGED <<stores, projects>>
     ELSE /\ stores' = [d \in DbTypes |->
                          IF d \in Range(db_paths) THEN NoStore ELSE stores[d]]
          \* cleanup_project_mappings for the deleted global stores
          /\ projects' = (projects /\ "Global" \notin Range(db_paths))
          /\ last' = Outcome("clear", "done", "ok")
  /\ UNCHANGED fs
  /\ UNCHANGED <<fedVars, cacheVars, pure, svc, cacheStats>>

\* ------------------------------------------------------------------------
\* search() with its optional sync_database()
\* ------------------------------------------------------------------------

\* The per-file loop of sync_database over the walked files.  w is the run's
\* working state: the vector store's chunk table and id counter (written
\* through at once), the in-memory file metadata, the change counter, the
\* number of chunks embedded and whether the run has returned an error.
RECURSIVE SyncFiles(_, _, _)
SyncFiles(files, w, tree) ==
  IF files = <<>> \/ w.err THEN w
  ELSE
    LET p   == Head(files)
        chk == check_file(w.fm, tree, p)
        w1  == [w EXCEPT !.changes = @ + 1,
                         !.chunks  = delete_chunks(@, Range(chk.old))]
        n   == NumChunks(tree[p])
        ids == insert_ids(w1.nextId, n)
    IN IF ~chk.needs THEN SyncFiles(Tail(files), w, tree)
       ELSE IF ~read_to_string_ok(tree[p]) THEN SyncFiles(Tail(files), w1, tree)
       ELSE IF ~chunk_semantic_ok(tree[p]) THEN [w1 EXCEPT !.err = TRUE]
       ELSE IF n = 0
       THEN SyncFiles(Tail(files),
                      [w1 EXCEPT !.fm[p] = FileMeta(tree[p], <<>>)], tree)
       ELSE SyncFiles(Tail(files),
                      [w1 EXCEPT !.chunks   = insert_chunks(@, ids, [k \in 1..n |-> p]),
                                 !.nextId   = @ + n,
                                 !.embedded = @ + n,
                                 !.fm[p]    = FileMeta(tree[p], ids)],
                      tree)

\* The deleted-files loop of sync_database.
SyncDeleted(w, tree) ==
  LET deleted == find_deleted_files(w.fm, tree)
      dead    == UNION {Range(w.fm[p].ids) : p \in Range(deleted)}
  IN [w EXCEPT !.changes = @ + Len(deleted),
               !.chunks  = delete_chunks(@, dead),
               !.fm      = [p \in Paths |->
                              IF p \in Range(deleted) THEN NoMeta ELSE @[p]],
               !.deleted = Range(deleted)]

\* sync_database: the store after the run and what the run reports.
sync_database(st, tree) ==
  LET w0 == [chunks |-> st.chunks, nextId |-> st.nextId, fm |-> st.fileMeta,
             changes |-> 0, embedded |-> 0, err |-> FALSE, deleted |-> {}]
      w1 == SyncFiles(Walk(tree), w0, tree)
      w2 == IF w1.err THEN w1 ELSE SyncDeleted(w1, tree)
  IN [result   |-> IF w2.err THEN "err" ELSE "ok",
      embedded |-> w2.embedded,
      deleted  |-> w2.deleted,
      nextId   |-> w2.nextId,
      \* file_meta.save runs only at the end of a run that made changes
      store    |-> [st EXCEPT !.chunks   = w2.chunks,
                              !.nextId   = w2.nextId,
                              !.fileMeta = IF w2.err \/ w2.changes = 0
                                           THEN @ ELSE w2.fm]]

\* VectorStore::get_chunk_as_result
get_chunk_as_result(st, id) ==
  IF st.chunks[id] # NoChunk
  THEN {[id |-> id, path |-> st.chunks[id]]}
  ELSE {}

\* The candidates of the widest query: every live chunk from the vector
\* index and, in hybrid mode, every id the FTS index holds.  Any other
\* query, limit, offset or filter returns a subset of their results.
SearchResults(st, vector_only_mode) ==
  LET vector_results == LiveIds(st)
      fused == IF vector_only_mode THEN vector_results
               ELSE vector_results \cup FtsIds(st)
  IN UNION {get_chunk_as_result(st, id) : id \in fused}

Search(sync, vector_only_mode) ==
  LET st  == stores["Local"]
      run == sync_database(st, fs)
      st1 == IF sync THEN run.store ELSE st
      out(exit, result) ==
        [Outcome("search", exit, result) EXCEPT
           !.sync = sync, !.vector_only = vector_only_mode,
           !.deleted = IF sync THEN run.deleted ELSE {}]
  IN
  /\ IF ~st.exists
     THEN last' = Outcome("search", "no_db", "ok") /\ UNCHANGED stores
     ELSE /\ sync => run.nextId <= MaxId + 1
          /\ stores' = [stores EXCEPT !["Local"] = st1]
          /\ IF sync /\ run.result = "err"
             THEN last' = out("sync_failed", "err")
             ELSE IF total_chunks(st1) = 0
             THEN last' = out("empty", "ok")
             ELSE last' = [out("done", "ok") EXCEPT
                             !.results = SearchResults(st1, vector_only_mode)]
  /\ UNCHANGED <<fs, projects>>
  /\ UNCHANGED <<fedVars, cacheVars, pure, svc, cacheStats>>

\* ------------------------------------------------------------------------
\* DatabaseManager: the loaded stores as one query sees them
\* ------------------------------------------------------------------------

\* SearchConfig::default().rrf_k
RrfK == 20

RrfKs == {1, RrfK}

\* retrieval_limit of hybrid_search_all
RetrievalCap == 200

\* Similarity of a chunk to the query: 0 stands for a live chunk the vector
\* search does not return, 1 and 2 for cosine 0.5 and 1.0.
Levels == {0, 1, 2}

\* How a store answers: "ok", the vector search returns Err, the FTS search
\* returns Err, or the store was loaded without an FTS index.
Modes == {"ok", "vec_err", "fts_err", "fts_none"}

\* (path, start_line, end_line) of chunk id i of a store; every chunk spans
\* lines 1-3, so the path stands for the key.  "c.rs" is indexed in both.
ChunkKeys(db_type) ==
  IF db_type = "Local" THEN <<"a.rs", "c.rs", "e.rs", "g.rs">>
  ELSE <<"b.rs", "c.rs", "d.rs", "f.rs">>

\* Deepest rank a fused id can have in one source.
MaxRank == MaxChunks + 1

RECURSIVE Product(_)
Product(S) ==
  IF S = {} THEN 1 ELSE LET x == CHOOSE x \in S : TRUE IN x * Product(S \ {x})

\* Scores are exact integers counted in units of 1/ScoreUnit, a common
\* multiple of every k + rank, so that sums of reciprocal ranks do not round.
ScoreUnit == 2 * Product({k + r : k \in RrfKs, r \in 1..MaxRank})

Cosine(level) == level * (ScoreUnit \div 2)

Min(a, b) == IF a < b THEN a ELSE b

Take(s, n) == SubSeq(s, 1, Min(n, Len(s)))

Skip(s, n) == SubSeq(s, Min(n, Len(s)) + 1, Len(s))

\* .skip(offset).take(limit)
Slice(s, offset, limit) == Take(Skip(s, offset), limit)

\* sort_by(|a, b| b.score.partial_cmp(&a.score)): stable, descending.
SortDesc(s) ==
  LET pos(i) == 1 + Cardinality({j \in 1..Len(s) : s[j].score > s[i].score})
                  + Cardinality({j \in 1..(i - 1) : s[j].score = s[i].score})
  IN [n \in 1..Len(s) |-> s[CHOOSE i \in 1..Len(s) : pos(i) = n]]

\* The SearchResult of chunk id of a store.
Result(db, id, score) ==
  [db |-> db.db_type, id |-> id, key |-> ChunkKeys(db.db_type)[id],
   score |-> score]

\* VectorStore::search(query, limit): the nearest chunks, best first.
store_search(db, limit) ==
  LET all  == [i \in 1..Len(db.scores) |-> Result(db, i, Cosine(db.scores[i]))]
      hits == SelectSeq(all, LAMBDA r : r.score > 0)
  IN IF db.mode = "vec_err"
     THEN [ok |-> FALSE, results |-> <<>>]
     ELSE [ok |-> TRUE, results |-> Take(SortDesc(hits), limit)]

\* FtsStore::search(query, limit): chunk ids, best BM25 score first.
fts_search(db, limit) ==
  IF db.mode = "fts_err"
  THEN [ok |-> FALSE, results |-> <<>>]
  ELSE [ok |-> TRUE, results |-> Take(db.fts, limit)]

\* VectorStore::get_chunk_as_result on a store of the manager.
chunk_as_result(db, id) ==
  IF id \in 1..Len(db.scores) THEN <<Result(db, id, 0)>> ELSE <<>>

\* ------------------------------------------------------------------------
\* Rank fusion
\* ------------------------------------------------------------------------

\* 1-based rank of id in a list of ids, 0 when absent.
RankIn(ids, id) ==
  IF \E i \in 1..Len(ids) : ids[i] = id
  THEN CHOOSE i \in 1..Len(ids) : ids[i] = id
  ELSE 0

\* A contribution counted from rank 0.
RrfTermZeroBased(k, rank) ==
  IF rank = 0 THEN 0 ELSE ScoreUnit \div (k + rank - 1)

\* One source's contribution 1 / (k + rank); nothing when absent.
RrfTerm(k, rank) == IF rank = 0 THEN 0 ELSE ScoreUnit \div (k + rank)

\* rrf_fusion(vector_results, fts_results, k): every id of either list once,
\* by descending fused score, ties by vector score, then by chunk id.
rrf_fusion(V, F, k) ==
  LET vids       == [i \in 1..Len(V) |-> V[i].id]
      all        == Range(vids) \cup Range(F)
      vscore(id) == IF RankIn(vids, id) > 0 THEN V[RankIn(vids, id)].score ELSE 0
      rrf(id)    == RrfTerm(k, RankIn(vids, id)) + RrfTerm(k, RankIn(F, id))
      Before(a, b) ==
        \/ rrf(a) > rrf(b)
        \/ rrf(a) = rrf(b) /\ vscore(a) > vscore(b)
        \/ rrf(a) = rrf(b) /\ vscore(a) = vscore(b) /\ a < b
      pos(id)    == 1 + Cardinality({b \in all : Before(b, id)})
  IN [n \in 1..Cardinality(all) |->
        LET id == CHOOSE x \in all : pos(x) = n
        IN [chunk_id |-> id, rrf_score |-> rrf(id)]]

\* rerank::vector_only: the vector ranking, scored by similarity.
vector_only(V) ==
  [i \in 1..Len(V) |-> [chunk_id |-> V[i].id, rrf_score |-> V[i].score]]

\* ------------------------------------------------------------------------
\* search_all and hybrid_search_all
\* ------------------------------------------------------------------------

\* The first store whose search returns Err fails the whole call.
CollectOrFail(outs) ==
  [ok      |-> \A i \in 1..Len(outs) : outs[i].ok,
   results |-> IF \A i \in 1..Len(outs) : outs[i].ok
               THEN Concat([i \in 1..Len(outs) |-> outs[i].results])
               ELSE <<>>]

\* A store whose search returned Err is logged and left out; the others'
\* results are appended in store order.
Collect(outs) ==
  [ok      |-> TRUE,
   results |-> Concat([i \in 1..Len(outs) |->
                         IF outs[i].ok THEN outs[i].results ELSE <<>>])]

\* Each store is asked for one page only.
RetrievalLimitOnePage(limit, offset) == limit

\* limit.saturating_add(offset)
RetrievalLimit(limit, offset) == limit + offset

search_all(m, limit, offset) ==
  LET retrieval_limit == RetrievalLimit(limit, offset)
      got == Collect([i \in 1..Len(m) |-> store_search(m[i], retrieval_limit)])
  IN [ok      |-> got.ok,
      results |-> IF got.ok
                  THEN Slice(SortDesc(got.results), offset, limit)
                  ELSE <<>>]

\* The fused ranking of one store: RRF when its FTS index answers, the
\* vector ranking otherwise.
FuseStore(db, vector_results, k) ==
  IF db.mode # "fts_none" /\ fts_search(db, RetrievalCap).ok
  THEN rrf_fusion(vector_results, fts_search(db, RetrievalCap).results, k)
  ELSE vector_only(vector_results)

\* A fused entry back to a SearchResult carrying the fused score: from the
\* vector results, else from the store, else dropped.
Materialize(db, vector_results, fused) ==
  LET vids == [i \in 1..Len(vector_results) |-> vector_results[i].id]
      one(f) ==
        IF RankIn(vids, f.chunk_id) > 0
        THEN <<[vector_results[RankIn(vids, f.chunk_id)]
                  EXCEPT !.score = f.rrf_score]>>
        ELSE [j \in 1..Len(chunk_as_result(db, f.chunk_id)) |->
                [chunk_as_result(db, f.chunk_id)[j] EXCEPT !.score = f.rrf_score]]
  IN Concat([i \in 1..Len(fused) |-> one(fused[i])])

\* The body of the per-database loop of hybrid_search_all.
HybridStore(db, limit, offset, k) ==
  LET vector == store_search(db, RetrievalCap)
      fused  == FuseStore(db, vector.results, k)
  IN IF ~vector.ok
     THEN [ok |-> FALSE, results |-> <<>>]
     ELSE [ok      |-> TRUE,
           results |-> Materialize(db, vector.results,
                                   Take(fused, RetrievalLimit(limit, offset)))]

\* Deduplicate by (path, start_line, end_line): the first occurrence keeps
\* its place and is replaced by a later one with a strictly higher score.
RECURSIVE Dedup(_, _)
Dedup(rest, results) ==
  IF rest = <<>> THEN results
  ELSE LET r    == Head(rest)
           keys == [i \in 1..Len(results) |-> results[i].key]
           idx  == RankIn(keys, r.key)
       IN IF idx = 0 THEN Dedup(Tail(rest), Append(results, r))
          ELSE IF r.score > results[idx].score
          THEN Dedup(Tail(rest), [results EXCEPT ![idx] = r])
          ELSE Dedup(Tail(rest), results)

hybrid_search_all(m, limit, offset, k) ==
  LET got == Collect([i \in 1..Len(m) |-> HybridStore(m[i], limit, offset, k)])
  IN [ok      |-> got.ok,
      results |-> IF got.ok
                  THEN Slice(SortDesc(Dedup(got.results, <<>>)), offset, limit)
                  ELSE <<>>]

NoCall == [fn |-> "none", limit |-> 0, offset |-> 0, k |-> 0,
           out |-> [ok |-> TRUE, results |-> <<>>]]

\* A query is one call on the loaded manager; the call leaves it as it was.
SearchAll(limit, offset) ==
  /\ call = NoCall
  /\ call' = [fn |-> "search_all", limit |-> limit, offset |-> offset, k |-> 0,
              out |-> search_all(mgr, limit, offset)]
  /\ UNCHANGED mgr
  /\ UNCHANGED <<idxVars, cacheVars, pure, svc, cacheStats>>

HybridSearchAll(limit, offset, k) ==
  /\ call = NoCall
  /\ call' = [fn |-> "hybrid_search_all", limit |-> limit, offset |-> offset,
              k |-> k, out |-> hybrid_search_all(mgr, limit, offset, k)]
  /\ UNCHANGED mgr
  /\ UNCHANGED <<idxVars, cacheVars, pure, svc, cacheStats>>

\* ------------------------------------------------------------------------
\* The project tree changes under the tool
\* ------------------------------------------------------------------------

WriteFile(p, c) ==
  /\ fs[p] # c
  /\ fs' = [fs EXCEPT ![p] = c]
  /\ last' = Outcome("fs", "done", "ok")
  /\ UNCHANGED <<stores, projects>>
  /\ UNCHANGED <<fedVars, cacheVars, pure, svc, cacheStats>>

DeleteFile(p) ==
  /\ fs[p] # Absent
  /\ fs' = [fs EXCEPT ![p] = Absent]
  /\ last' = Outcome("fs", "done", "ok")
  /\ UNCHANGED <<stores, projects>>
  /\ UNCHANGED <<fedVars, cacheVars, pure, svc, cacheStats>>

\* ------------------------------------------------------------------------
\* PersistentEmbeddingCache
\* ------------------------------------------------------------------------

\* Longest put_batch the model issues.
MaxBatch == 2

\* Strings are sequences of characters, so that concatenation is real.
HashStrings == {<<"a">>, <<"a", ":", "b">>, <<"c">>}

ModelKeys == {<<"m">>, <<"b", ":", "m">>}

Vectors == {<<1>>, <<2, 3>>}

\* Option<Vec<f32>>
Some(embedding) == [some |-> TRUE, v |-> embedding]

None == [some |-> FALSE, v |-> <<>>]

\* No value under a key of the table.
NoBytes == [len |-> 0 - 1, data |-> <<>>]

\* Sha256, rendered in hex: a digest that names the bytes it was fed.
Sha256(bytes) == [sha256 |-> bytes]

\* A key that leaves the model out.
cache_key_hash_only(model_key, content_hash) == Sha256(content_hash)

\* PersistentEmbeddingCache::cache_key
cache_key(model_key, content_hash) ==
  Sha256(content_hash \o <<":">> \o model_key)

\* bincode::serialize of a Vec<f32>: the length, then the elements.
serialize(embedding) == [len |-> Len(embedding), data |-> embedding]

\* bincode::deserialize::<Vec<f32>>
deserialize(bytes) ==
  IF bytes.len = Len(bytes.data) THEN Some(bytes.data) ELSE None

CacheKeys == {cache_key(m, h) : m \in ModelKeys, h \in HashStrings}

EmptyCacheDb == [key \in CacheKeys |-> NoBytes]

\* A put that keeps what the key already holds.
db_put_if_absent(db, key, bytes) ==
  IF db[key] = NoBytes THEN [db EXCEPT ![key] = bytes] ELSE db

\* heed Database::put inside the write transaction: the key is overwritten.
db_put(db, key, bytes) == [db EXCEPT ![key] = bytes]

\* Database::len
db_len(db) == Cardinality({key \in CacheKeys : db[key] # NoBytes})

\* PersistentEmbeddingCache::get
cache_get(db, model_key, content_hash) ==
  LET key == cache_key(model_key, content_hash)
  IN IF db[key] = NoBytes THEN None ELSE deserialize(db[key])

MaxGets == 3

\* The counters of a new handle, AtomicUsize::new(0), with the number of
\* get calls that returned and of those that returned a value.
NoStats == [hits |-> 0, misses |-> 0, gets |-> 0, found |-> 0]

\* PersistentEmbeddingCache::get with its counters: self.env.read_txn().ok()?
\* returns None at once when the read transaction does not open; a value
\* that is found and deserialized is a hit, everything else a miss.
get(db, model_key, content_hash, read_txn_ok, hits, misses) ==
  IF ~read_txn_ok THEN [value |-> None, hits |-> hits, misses |-> misses]
  ELSE LET value == cache_get(db, model_key, content_hash)
       IN [value  |-> value,
           hits   |-> IF value.some THEN hits + 1 ELSE hits,
           misses |-> IF value.some THEN misses ELSE misses + 1]

\* The loop of put_batch over its items, in one write transaction.
RECURSIVE put_items(_, _, _)
put_items(db, model_key, items) ==
  IF items = <<>> THEN db
  ELSE put_items(db_put(db, cache_key(model_key, Head(items).hash),
                        serialize(Head(items).embedding)),
                 model_key, Tail(items))

\* What the caller has put through the handle of one model, last write last.
RECURSIVE log_items(_, _, _)
log_items(log, model_key, items) ==
  IF items = <<>> THEN log
  ELSE log_items([log EXCEPT ![model_key][Head(items).hash] =
                                 Some(Head(items).embedding)],
                 model_key, Tail(items))

EmptyCacheLog == [m \in ModelKeys |-> [h \in HashStrings |-> None]]

\* A call through the handle of one model: what get returned in value, what
\* len returned in len; for a put, value is what the log held for the hash
\* before it.
CacheCall(fn, model_key, content_hash, value, len) ==
  [fn |-> fn, model |-> model_key, hash |-> content_hash, value |-> value,
   len |-> len]

NoCacheCall == CacheCall("none", <<>>, <<>>, None, 0)

Batches ==
  UNION {[1..n -> [hash : HashStrings, embedding : Vectors]] : n \in 0..MaxBatch}

\* PersistentEmbeddingCache::new on the shared directory: the table and what
\* it holds stay as they are on disk.
CacheOpen(model_key) ==
  /\ cacheOp' = CacheCall("new", model_key, <<>>, None, 0)
  /\ UNCHANGED <<cacheDb, cacheLog>>
  /\ UNCHANGED <<idxVars, fedVars, pure, svc, cacheStats>>

CachePut(model_key, content_hash, embedding) ==
  /\ cacheDb' = db_put(cacheDb, cache_key(model_key, content_hash),
                       serialize(embedding))
  /\ cacheLog' = [cacheLog EXCEPT ![model_key][content_hash] = Some(embedding)]
  /\ cacheOp' = CacheCall("put", model_key, content_hash,
                          cacheLog[model_key][content_hash], 0)
  /\ UNCHANGED <<idxVars, fedVars, pure, svc, cacheStats>>

CachePutBatch(model_key, items) ==
  /\ cacheDb' = put_items(cacheDb, model_key, items)
  /\ cacheLog' = log_items(cacheLog, model_key, items)
  /\ cacheOp' = CacheCall("put_batch", model_key, <<>>, None, 0)
  /\ UNCHANGED <<idxVars, fedVars, pure, svc, cacheStats>>

CacheGet(model_key, content_hash) ==
  /\ cacheOp' = CacheCall("get", model_key, content_hash,
                          get(cacheDb, model_key, content_hash, TRUE, 0, 0).value, 0)
  /\ UNCHANGED <<cacheDb, cacheLog>>
  /\ UNCHANGED <<idxVars, fedVars, pure, svc, cacheStats>>

\* PersistentEmbeddingCache::get on the handle whose counters are followed;
\* the read transaction opens or not.
CacheGetCounted(model_key, content_hash, read_txn_ok) ==
  /\ cacheStats.gets < MaxGets
  /\ LET r == get(cacheDb, model_key, content_hash, read_txn_ok,
                  cacheStats.hits, cacheStats.misses)
     IN /\ cacheOp' = CacheCall("get", model_key, content_hash, r.value, 0)
        /\ cacheStats' = [hits   |-> r.hits,
                          misses |-> r.misses,
                          gets   |-> cacheStats.gets + 1,
                          found  |-> cacheStats.found + (IF r.value.some THEN 1 ELSE 0)]
  /\ UNCHANGED <<cacheDb, cacheLog>>
  /\ UNCHANGED <<idxVars, fedVars, pure, svc>>

\* PersistentEmbeddingCache::len
CacheLen(model_key) ==
  /\ cacheOp' = CacheCall("len", model_key, <<>>, None, db_len(cacheDb))
  /\ UNCHANGED <<cacheDb, cacheLog>>
  /\ UNCHANGED <<idxVars, fedVars, pure, svc, cacheStats>>

\* ------------------------------------------------------------------------
\* Functions of the MCP service and of the tokenizer, called on their own
\* ------------------------------------------------------------------------

PureCall(fn, in, out) == [fn |-> fn, in |-> in, out |-> out]

NoPure == PureCall("none", <<>>, <<>>)

\* Longest ranked list handed to limit_results_per_file.
MaxResults == 4

MaxPerFile == 2

\* A ranked list: the result at position i has chunk id i.
Ranked(paths) == [i \in 1..Len(paths) |-> [path |-> paths[i], id |-> i]]

RankedLists ==
  {Ranked(paths) : paths \in UNION {[1..n -> Paths] : n \in 0..MaxResults}}

\* A cap that lets one result too many through.
PerFileFullAfter(count, per_file) == count > per_file

\* limit_results_per_file: *count >= per_file
PerFileFull(count, per_file) == count >= per_file

\* The loop of limit_results_per_file.
RECURSIVE limit_loop(_, _, _, _, _)
limit_loop(rest, counts_by_path, filtered, per_file, limit) ==
  IF rest = <<>> THEN filtered
  ELSE LET result == Head(rest)
           count == counts_by_path[result.path]
       IN IF PerFileFull(count, per_file)
          THEN limit_loop(Tail(rest), counts_by_path, filtered, per_file, limit)
          ELSE LET kept == Append(filtered, result)
               IN IF Len(kept) >= limit THEN kept
                  ELSE limit_loop(Tail(rest),
                                  [counts_by_path EXCEPT ![result.path] = count + 1],
                                  kept, per_file, limit)

limit_results_per_file(results, per_file, limit) ==
  IF results = <<>> THEN results
  ELSE limit_loop(results, [p \in Paths |-> 0], <<>>, per_file, limit)

LimitResultsPerFile(results, per_file, limit) ==
  /\ pure.fn = "none"
  /\ pure' = PureCall("limit_results_per_file",
                      [results |-> results, per_file |-> per_file, limit |-> limit],
                      limit_results_per_file(results, per_file, limit))
  /\ UNCHANGED <<idxVars, fedVars, cacheVars, svc, cacheStats>>

\* ------------------------------------------------------------------------
\* fts::code_tokenizer
\* ------------------------------------------------------------------------

\* Longest text handed to the tokenizer, in characters.
MaxText == 4

\* One or two characters of every class the tokenizer tells apart.
Chars == {"a", "b", "B", "2", "_", "-", " ", "É"}

Texts == UNION {[1..n -> Chars] : n \in 0..MaxText}

\* The '\0' pushed after the last character of a segment.
Nul == "nul"

is_ascii_lowercase(ch) == ch \in {"a", "b"}

is_ascii_uppercase(ch) == ch = "B"

is_ascii_digit(ch) == ch = "2"

\* char::is_alphanumeric, which knows the letters outside ASCII too
is_alphanumeric(ch) == ch \in {"a", "b", "B", "2", "É"}

is_identifier_char(ch) == is_alphanumeric(ch) \/ ch = "_" \/ ch = "-"

\* A lowercasing that knows the letters outside ASCII.
to_lowercase_char(ch) ==
  IF ch = "B" THEN "b" ELSE IF ch = "É" THEN "é" ELSE ch

\* u8::to_ascii_lowercase on every byte: only A-Z change.
to_ascii_lowercase_char(ch) == IF ch = "B" THEN "b" ELSE ch

to_ascii_lowercase(str) == [i \in 1..Len(str) |-> to_ascii_lowercase_char(str[i])]

\* text[from..to], the half-open range of the source.
Slice2(text, from, to) == SubSeq(text, from, to - 1)

\* The loop of split_camel_case from position q, with the piece open at
\* boundary.
RECURSIVE camel_loop(_, _, _, _, _)
camel_loop(text, q, end, boundary, pieces) ==
  IF q >= end
  THEN IF boundary < end THEN Append(pieces, <<boundary, end>>) ELSE pieces
  ELSE LET prev == text[q - 1]
           cur == text[q]
           next == IF q + 1 < end THEN text[q + 1] ELSE Nul
           lower_to_upper ==
             (is_ascii_lowercase(prev) \/ is_ascii_digit(prev))
               /\ is_ascii_uppercase(cur)
           acronym_to_word ==
             is_ascii_uppercase(prev) /\ is_ascii_uppercase(cur)
               /\ is_ascii_lowercase(next)
       IN IF lower_to_upper \/ acronym_to_word
          THEN camel_loop(text, q + 1, end, q,
                          IF boundary < q THEN Append(pieces, <<boundary, q>>)
                          ELSE pieces)
          ELSE camel_loop(text, q + 1, end, boundary, pieces)

split_camel_case(text, start, end) == camel_loop(text, start + 1, end, start, <<>>)

\* The first loop of split_identifier: segments between '_' and '-'.
RECURSIVE coarse_loop(_, _, _, _, _)
coarse_loop(text, q, end, segment_start, coarse) ==
  IF q >= end
  THEN IF segment_start < end THEN Append(coarse, <<segment_start, end>>)
       ELSE coarse
  ELSE IF text[q] = "_" \/ text[q] = "-"
       THEN coarse_loop(text, q + 1, end, q + 1,
                        IF segment_start < q THEN Append(coarse, <<segment_start, q>>)
                        ELSE coarse)
       ELSE coarse_loop(text, q + 1, end, segment_start, coarse)

RECURSIVE fine_loop(_, _)
fine_loop(text, coarse) ==
  IF coarse = <<>> THEN <<>>
  ELSE split_camel_case(text, Head(coarse)[1], Head(coarse)[2])
         \o fine_loop(text, Tail(coarse))

split_identifier(text, start, end) ==
  fine_loop(text, coarse_loop(text, start, end, start, <<>>))

\* The terms pushed for the segments of one run.
RECURSIVE terms_of(_, _)
terms_of(text, segments) ==
  IF segments = <<>> THEN <<>>
  ELSE LET seg == Head(segments)
           term == to_ascii_lowercase(Slice2(text, seg[1], seg[2]))
       IN (IF seg[1] >= seg[2] \/ term = <<>> THEN <<>> ELSE <<term>>)
            \o terms_of(text, Tail(segments))

\* The end of the run of identifier characters that starts at q.
RECURSIVE run_end(_, _)
run_end(text, q) ==
  IF q > Len(text) \/ ~is_identifier_char(text[q]) THEN q
  ELSE run_end(text, q + 1)

\* The outer loop of tokenize_code from position q.
RECURSIVE tokenize_from(_, _)
tokenize_from(text, q) ==
  IF q > Len(text) THEN <<>>
  ELSE IF ~is_identifier_char(text[q]) THEN tokenize_from(text, q + 1)
  ELSE LET end == run_end(text, q + 1)
       IN terms_of(text, split_identifier(text, q, end))
            \o tokenize_from(text, end)

\* tokenize_code, as the texts of its tokens in order.
tokenize_code(text) == tokenize_from(text, 1)

TokenizeCode(text) ==
  /\ pure.fn = "none"
  /\ pure' = PureCall("tokenize_code", text, tokenize_code(text))
  /\ UNCHANGED <<idxVars, fedVars, cacheVars, svc, cacheStats>>

\* ------------------------------------------------------------------------
\* rrf_fusion called on its own
\* ------------------------------------------------------------------------

\* Lists of distinct chunk ids, at most MaxRank long.
IdLists ==
  {l \in UNION {[1..n -> Ids] : n \in 0..MaxRank} :
     \A i, j \in 1..Len(l) : i # j => l[i] # l[j]}

\* Vector rankings: distinct ids, best similarity first.
VectorLists ==
  {v \in UNION {[1..n -> [id : Ids, score : {Cosine(l) : l \in Levels \ {0}}]] :
                  n \in 0..MaxRank} :
     /\ \A i, j \in 1..Len(v) : i # j => v[i].id # v[j].id
     /\ \A i \in 1..Len(v) - 1 : v[i].score >= v[i + 1].score}

RrfFusion(V, F, k) ==
  /\ pure.fn = "none"
  /\ pure' = PureCall("rrf_fusion", [V |-> V, F |-> F, k |-> k],
                      [fused |-> rrf_fusion(V, F, k),
                       swapped |-> rrf_fusion([i \in 1..Len(F) |-> [id |-> F[i], score |-> 0]],
                                              [i \in 1..Len(V) |-> V[i].id], k)])
  /\ UNCHANGED <<idxVars, fedVars, cacheVars, svc, cacheStats>>

\* ------------------------------------------------------------------------
\* Neural reranking as a step of search and of the MCP hybrid search
\* ------------------------------------------------------------------------

\* Option<f32>
NoScore == [some |-> FALSE, v |-> 0]

SomeScore(score) == [some |-> TRUE, v |-> score]

\* n candidates, best first, none reranked yet.
Candidates(n) ==
  [i \in 1..n |-> [id |-> i, score |-> (n - i + 1) * 10, rerank_score |-> NoScore]]

CandidateLists == {Candidates(n) : n \in 0..MaxResults}

\* What NeuralReranker::new and rerank_and_blend can do: fail to load, fail
\* on the batch, or return (index, blended score) pairs in some order.
Rerankers == {"load_err", "blend_err", "reverse", "same"}

\* rerank_and_blend on n documents: 0-based indices with their new scores.
rerank_and_blend(reranker, n) ==
  IF reranker = "reverse"
  THEN [i \in 1..n |-> [idx |-> n - i, score |-> (n - i + 1) * 7]]
  ELSE [i \in 1..n |-> [idx |-> i - 1, score |-> (n - i + 1) * 7]]

\* The items of the blended order, each with its new score.
RECURSIVE reordered(_, _)
reordered(top_results, blended) ==
  IF blended = <<>> THEN <<>>
  ELSE LET idx == Head(blended).idx
       IN (IF idx + 1 \in 1..Len(top_results)
           THEN <<[top_results[idx + 1] EXCEPT
                     !.rerank_score = SomeScore(Head(blended).score),
                     !.score = Head(blended).score]>>
           ELSE <<>>)
            \o reordered(top_results, Tail(blended))

\* A fallback that forgets the drained head of the list.
original_rest_only(top_results, results) == results

\* apply_optional_rerank on failure: original = top_results; extend(results)
original(top_results, results) == top_results \o results

apply_optional_rerank(results, rerank, rerank_top, reranker) ==
  IF ~rerank \/ results = <<>> THEN results
  ELSE LET top_n == Min(rerank_top, Len(results))
           top_results == Take(results, top_n)
           rest == Skip(results, top_n)
       IN IF reranker \in {"load_err", "blend_err"}
          THEN original(top_results, rest)
          ELSE reordered(top_results, rerank_and_blend(reranker, top_n)) \o rest

\* The reranking step of search(): the whole list is blended, and a failure
\* leaves `results` as it is.
search_rerank(results, rerank, reranker) ==
  IF rerank /\ results # <<>>
  THEN IF reranker \in {"load_err", "blend_err"}
       THEN results
       ELSE reordered(results, rerank_and_blend(reranker, Len(results)))
  ELSE results

RerankIn(results, rerank, rerank_top, reranker) ==
  [results |-> results, rerank |-> rerank, rerank_top |-> rerank_top,
   reranker |-> reranker]

ApplyOptionalRerank(results, rerank, rerank_top, reranker) ==
  /\ pure.fn = "none"
  /\ pure' = PureCall("apply_optional_rerank",
                      RerankIn(results, rerank, rerank_top, reranker),
                      apply_optional_rerank(results, rerank, rerank_top, reranker))
  /\ UNCHANGED <<idxVars, fedVars, cacheVars, svc, cacheStats>>

SearchRerank(results, rerank, reranker) ==
  /\ pure.fn = "none"
  /\ pure' = PureCall("search_rerank",
                      RerankIn(results, rerank, Len(results), reranker),
                      search_rerank(results, rerank, reranker))
  /\ UNCHANGED <<idxVars, fedVars, cacheVars, svc, cacheStats>>

\* ------------------------------------------------------------------------
\* search(): per-file grouping of the printed results
\* ------------------------------------------------------------------------

GroupScores == {1, 2}

\* One page of results as search() has it before printing: best first, the
\* result at position i has chunk id i.
Pages ==
  {[i \in 1..Len(paths) |-> [path |-> paths[i], id |-> i, score |-> scores[i]]] :
     <<paths, scores>> \in
       UNION {[1..n -> Paths] \X
                {sc \in [1..n -> GroupScores] :
                   \A i \in 1..n - 1 : sc[i] >= sc[i + 1]} :
              n \in 0..MaxResults}}

\* Orders in which a HashMap<String, Vec<_>> can hand out its entries: the
\* hasher is seeded per process, so every order of the keys can occur.
IterationOrders ==
  {o \in [1..Len(PathOrder) -> Paths] : \A i, j \in 1..Len(o) : i # j => o[i] # o[j]}

\* .map(|r| r.score).fold(0.0f32, f32::max)
RECURSIVE MaxScore(_)
MaxScore(results) ==
  IF results = <<>> THEN 0
  ELSE LET m == MaxScore(Tail(results))
       IN IF Head(results).score > m THEN Head(results).score ELSE m

\* by_file.into_iter().collect(): the files that have results, in the order
\* the map iterates, each with its results in page order.
RECURSIVE files_in(_, _)
files_in(order, page) ==
  IF order = <<>> THEN <<>>
  ELSE LET file_results == SelectSeq(page, LAMBDA r : r.path = Head(order))
       IN (IF file_results = <<>> THEN <<>>
           ELSE <<[path |-> Head(order), results |-> file_results,
                   score |-> MaxScore(file_results)]>>)
            \o files_in(Tail(order), page)

\* The results printed for the sorted files, per_file of each.
RECURSIVE printed(_, _)
printed(files, per_file) ==
  IF files = <<>> THEN <<>>
  ELSE Take(SortDesc(Head(files).results), per_file)
         \o printed(Tail(files), per_file)

\* What search() prints for a page, given the order the map iterates in.
print_results(page, per_file, max_results, order) ==
  IF per_file > 0 /\ per_file < max_results
  THEN printed(SortDesc(files_in(order, page)), per_file)
  ELSE page

\* Two executions of the printing on the same page.
PrintResults(page, per_file, max_results, first, second) ==
  /\ pure.fn = "none"
  /\ pure' = PureCall("print_results",
                      [page |-> page, per_file |-> per_file,
                       max_results |-> max_results],
                      [first |-> print_results(page, per_file, max_results, first),
                       second |-> print_results(page, per_file, max_results, second)])
  /\ UNCHANGED <<idxVars, fedVars, cacheVars, svc, cacheStats>>

\* ------------------------------------------------------------------------
\* The query pipeline after retrieval: filters, per-file cap, pagination
\* ------------------------------------------------------------------------

McpMaxCandidateLimit == 100

CandidateFactor == 4

\* normalize_candidate_limit: limit * per_file * 4, clamped to
\* [limit, MCP_MAX_CANDIDATE_LIMIT]
normalize_candidate_limit(limit, per_file) ==
  LET wanted == limit * per_file * CandidateFactor
  IN IF wanted < limit THEN limit
     ELSE IF wanted > McpMaxCandidateLimit THEN McpMaxCandidateLimit
     ELSE wanted

NoFilter == "-"

PathFilters == {NoFilter} \cup Paths

\* results.retain(|r| path_normalized.starts_with(filter_normalized))
filter_by_path(results, filter_path) ==
  IF filter_path = NoFilter THEN results
  ELSE SelectSeq(results, LAMBDA r : r.path = filter_path)

\* The MCP hybrid_search / semantic_search tool on the ranking its stores
\* hold for the query, without reranking: the manager skips offset and
\* takes candidate_limit, then the tool filters and caps per file.
mcp_search_page(ranking, filter_path, per_file, limit, offset) ==
  LET candidate_limit == normalize_candidate_limit(limit, per_file)
      results == Slice(ranking, offset, candidate_limit)
  IN limit_results_per_file(filter_by_path(results, filter_path), per_file, limit)

\* search() with --json: filters, then skip(offset).take(max_results); the
\* per-file grouping is in the standard output only.
cli_json_page(ranking, filter_path, per_file, max_results, offset) ==
  Slice(filter_by_path(ranking, filter_path), offset, max_results)

PageIn(ranking, filter_path, per_file, limit, offset) ==
  [ranking |-> ranking, filter_path |-> filter_path, per_file |-> per_file,
   limit |-> limit, offset |-> offset]

McpSearchPage(ranking, filter_path, per_file, limit, offset) ==
  /\ pure.fn = "none"
  /\ pure' = PureCall("mcp_search_page",
                      PageIn(ranking, filter_path, per_file, limit, offset),
                      mcp_search_page(ranking, filter_path, per_file, limit, offset))
  /\ UNCHANGED <<idxVars, fedVars, cacheVars, svc, cacheStats>>

CliJsonPage(ranking, filter_path, per_file, max_results, offset) ==
  /\ pure.fn = "none"
  /\ pure' = PureCall("cli_json_page",
                      PageIn(ranking, filter_path, per_file, max_results, offset),
                      cli_json_page(ranking, filter_path, per_file, max_results, offset))
  /\ UNCHANGED <<idxVars, fedVars, cacheVars, svc, cacheStats>>

\* search(): take_count, the number of fused results kept as candidates.
take_count(rerank, rerank_top, max_results, offset, fused_len) ==
  LET requested_count == max_results + offset
  IN IF rerank
     THEN Min(IF rerank_top > requested_count THEN rerank_top ELSE requested_count,
              fused_len)
     ELSE Min(requested_count, fused_len)

\* search() from the candidate selection to the end of the reranking step.
SearchSelectRerank(fused, rerank, rerank_top, max_results, offset, reranker) ==
  LET candidates == Take(fused, take_count(rerank, rerank_top, max_results,
                                           offset, Len(fused)))
  IN /\ pure.fn = "none"
     /\ pure' = PureCall("search_select_rerank",
                         RerankIn(candidates, rerank, rerank_top, reranker),
                         search_rerank(candidates, rerank, reranker))
     /\ UNCHANGED <<idxVars, fedVars, cacheVars, svc, cacheStats>>

\* ------------------------------------------------------------------------
\* FastEmbedder: mini-batches
\* ------------------------------------------------------------------------

\* Longest list of texts handed to embed_batch.
MaxTexts == 4

\* Largest mini-batch size given explicitly.
MaxBatchSize == 3

EmbedTexts == {"x", "y"}

TextLists == UNION {[1..n -> EmbedTexts] : n \in 0..MaxTexts}

\* TextEmbedding::embed on one batch: one vector per text, in order.
model_embed(text_refs) == [i \in 1..Len(text_refs) |-> <<text_refs[i], "vec">>]

\* An extend that puts the new embeddings in front.
extend_front(all_embeddings, embeddings) == embeddings \o all_embeddings

\* all_embeddings.extend(embeddings)
extend(all_embeddings, embeddings) == all_embeddings \o embeddings

EmbedOut(result, embeddings, attempts) ==
  [result |-> result, embeddings |-> embeddings, attempts |-> attempts]

\* The loop over texts.chunks(batch_size): k is the number of the next
\* mini-batch, fail_at the mini-batch on which inference fails (0: none).
RECURSIVE embed_loop(_, _, _, _, _, _)
embed_loop(texts, batch_size, k, fail_at, all_embeddings, attempts) ==
  IF texts = <<>> THEN EmbedOut("ok", all_embeddings, attempts)
  ELSE IF k = fail_at THEN EmbedOut("err", <<>>, Append(attempts, k))
  ELSE embed_loop(Skip(texts, batch_size), batch_size, k + 1, fail_at,
                  extend(all_embeddings, model_embed(Take(texts, batch_size))),
                  Append(attempts, k))

\* embed_batch_refs_chunked; slice::chunks panics on a chunk size of 0.
embed_batch_refs_chunked(texts, batch_size, fail_at) ==
  IF texts = <<>> THEN EmbedOut("ok", <<>>, <<>>)
  ELSE IF batch_size = 0 THEN EmbedOut("panic", <<>>, <<>>)
  ELSE embed_loop(texts, batch_size, 1, fail_at, <<>>, <<>>)

EmbedIn(texts, batch_size, fail_at) ==
  [texts |-> texts, batch_size |-> batch_size, fail_at |-> fail_at]

EmbedBatchChunked(texts, batch_size, fail_at) ==
  /\ pure.fn = "none"
  /\ pure' = PureCall("embed_batch_chunked", EmbedIn(texts, batch_size, fail_at),
                      embed_batch_refs_chunked(texts, batch_size, fail_at))
  /\ UNCHANGED <<idxVars, fedVars, cacheVars, svc, cacheStats>>

\* ------------------------------------------------------------------------
\* Model instances of one process (src/mcp/mod.rs, src/search/mod.rs)
\* ------------------------------------------------------------------------

MaxThreads == 2

MaxCalls == 3

Threads == 1..MaxThreads

\* A process is the MCP server, whose tool calls run on several threads, or
\* one run of search() on the main thread.
Processes == {"mcp", "search"}

\* DemongrepService::new: embedding_service is Mutex::new(None).  guard is
\* the thread that holds the MutexGuard (0: unlocked); service is TRUE when
\* the Option is Some; embedders and rerankers count the model instances
\* the process has created so far.
Service(process) ==
  [process   |-> process,
   pc        |-> [t \in Threads |-> "idle"],
   guard     |-> 0,
   service   |-> FALSE,
   embedders |-> 0,
   rerankers |-> 0,
   calls     |-> 0]

NoSvc == Service("none")

\* get_embedding_service: if guard.is_none().
NeedsModel(service) == ~service

\* FastEmbedder::with_model: TextEmbedding::try_new loads a model instance,
\* or fails.
with_model(embedders, load_ok) == IF load_ok THEN embedders + 1 ELSE embedders

\* NeuralReranker::new() builds a reranker of its own, or fails.
reranker_new(rerankers, load_ok) == IF load_ok THEN rerankers + 1 ELSE rerankers

Embedding == {t \in Threads : svc.pc[t] = "embedding"}

Reranking == {t \in Threads : svc.pc[t] = "reranking"}

\* A tool call (semantic_search, hybrid_search) arrives on a thread and
\* asks for the service mutex.
ToolCall(t) ==
  /\ svc.process = "mcp"
  /\ svc.pc[t] = "idle"
  /\ svc.calls < MaxCalls
  /\ svc' = [svc EXCEPT !.pc[t] = "waiting", !.calls = @ + 1]
  /\ UNCHANGED <<idxVars, fedVars, cacheVars, pure, cacheStats>>

\* get_embedding_service: the call takes the mutex once it is free and
\* keeps the guard until it returns; the first call loads the model.  A
\* failed load leaves the Option None and ends the call with an error.
GetEmbeddingService(t, load_ok) ==
  /\ svc.process = "mcp"
  /\ svc.pc[t] = "waiting"
  /\ svc.guard = 0
  /\ IF NeedsModel(svc.service) /\ ~load_ok
     THEN svc' = [svc EXCEPT !.pc[t] = "idle"]
     ELSE svc' = [svc EXCEPT
            !.guard = t,
            !.service = TRUE,
            !.embedders = IF NeedsModel(svc.service) THEN with_model(@, load_ok) ELSE @,
            !.pc[t] = "locked"]
  /\ UNCHANGED <<idxVars, fedVars, cacheVars, pure, cacheStats>>

\* service.embed_query(query) begins, under the guard.
EmbedQuery(t) ==
  /\ svc.process = "mcp"
  /\ svc.pc[t] = "locked"
  /\ svc' = [svc EXCEPT !.pc[t] = "embedding"]
  /\ UNCHANGED <<idxVars, fedVars, cacheVars, pure, cacheStats>>

\* embed_query returns and the stores are searched.
EmbedQueryDone(t) ==
  /\ svc.process = "mcp"
  /\ svc.pc[t] = "embedding"
  /\ svc' = [svc EXCEPT !.pc[t] = "fused"]
  /\ UNCHANGED <<idxVars, fedVars, cacheVars, pure, cacheStats>>

\* apply_optional_rerank: with rerank set it creates a reranker for this
\* call; a failed load or rerank = false leaves the results as they are.
ApplyRerank(t, rerank, load_ok) ==
  /\ svc.process = "mcp"
  /\ svc.pc[t] = "fused"
  /\ IF rerank
     THEN svc' = [svc EXCEPT
            !.rerankers = reranker_new(@, load_ok),
            !.pc[t] = IF load_ok THEN "reranking" ELSE "respond"]
     ELSE svc' = [svc EXCEPT !.pc[t] = "respond"]
  /\ UNCHANGED <<idxVars, fedVars, cacheVars, pure, cacheStats>>

\* rerank_and_blend returns; the reranker is dropped with the call.
ApplyRerankDone(t) ==
  /\ svc.process = "mcp"
  /\ svc.pc[t] = "reranking"
  /\ svc' = [svc EXCEPT !.pc[t] = "respond"]
  /\ UNCHANGED <<idxVars, fedVars, cacheVars, pure, cacheStats>>

\* The tool call returns: service_guard goes out of scope.
ToolReturn(t) ==
  /\ svc.process = "mcp"
  /\ svc.pc[t] = "respond"
  /\ svc' = [svc EXCEPT !.guard = 0, !.pc[t] = "idle"]
  /\ UNCHANGED <<idxVars, fedVars, cacheVars, pure, cacheStats>>

\* search(): EmbeddingService::with_model_and_db, then the query is embedded.
SearchLoadModel(load_ok) ==
  /\ svc.process = "search"
  /\ svc.pc[1] = "idle"
  /\ svc' = [svc EXCEPT
       !.embedders = with_model(@, load_ok),
       !.pc[1] = IF load_ok THEN "embedding" ELSE "done"]
  /\ UNCHANGED <<idxVars, fedVars, cacheVars, pure, cacheStats>>

\* search(): the query is embedded; with sync, sync_database() then builds
\* an EmbeddingService of its own while the first one is still alive.
SearchEmbedded(sync, load_ok) ==
  /\ svc.process = "search"
  /\ svc.pc[1] = "embedding"
  /\ IF sync
     THEN svc' = [svc EXCEPT
            !.embedders = with_model(@, load_ok),
            !.pc[1] = IF load_ok THEN "syncing" ELSE "done"]
     ELSE svc' = [svc EXCEPT !.pc[1] = "fused"]
  /\ UNCHANGED <<idxVars, fedVars, cacheVars, pure, cacheStats>>

\* sync_database returns Ok and drops its service.
SearchSynced ==
  /\ svc.process = "search"
  /\ svc.pc[1] = "syncing"
  /\ svc' = [svc EXCEPT !.pc[1] = "fused"]
  /\ UNCHANGED <<idxVars, fedVars, cacheVars, pure, cacheStats>>

\* search(): the reranking step creates a reranker when rerank is set.
SearchNewReranker(rerank, load_ok) ==
  /\ svc.process = "search"
  /\ svc.pc[1] = "fused"
  /\ IF rerank
     THEN svc' = [svc EXCEPT
            !.rerankers = reranker_new(@, load_ok),
            !.pc[1] = IF load_ok THEN "reranking" ELSE "respond"]
     ELSE svc' = [svc EXCEPT !.pc[1] = "respond"]
  /\ UNCHANGED <<idxVars, fedVars, cacheVars, pure, cacheStats>>

\* search(): rerank_and_blend returns, or the results are printed.
SearchStep ==
  /\ svc.process = "search"
  /\ svc.pc[1] \in {"reranking", "respond"}
  /\ svc' = [svc EXCEPT !.pc[1] = IF @ = "reranking" THEN "respond" ELSE "done"]
  /\ UNCHANGED <<idxVars, fedVars, cacheVars, pure, cacheStats>>

\* ------------------------------------------------------------------------
\* DatabaseManager::load (src/database/mod.rs)
\* ------------------------------------------------------------------------

\* A model name that ModelType::from_str does not know.
UnknownModel == "other-model"

\* metadata.json of a store: missing, not parsable as JSON, written by
\* index() for one of the models, or written for a model this build does
\* not know, with the dimensions of that model.
MetaJson(state, model_short_name, dims) ==
  [state |-> state, model_short_name |-> model_short_name, dimensions |-> dims]

MetaFiles ==
  {MetaJson("missing", NoModel, 0), MetaJson("unparsable", NoModel, 0)}
  \cup {MetaJson("json", m, dimensions(m)) : m \in Models}
  \cup {MetaJson("json", UnknownModel, d) : d \in {384, 768, 1024}}

\* ModelType::from_str on the short names.
from_str(s) == IF s \in Models THEN Some(s) ELSE None

\* load: unwrap_or_else(|| (ModelType::default(), 384))
fallback == [model_type |-> DefaultModel, dimensions |-> 384]

\* DatabaseManager::read_metadata: None when the file is missing or is not
\* JSON; otherwise the model named in it, or the default model when the
\* name is unknown, with the dimensions written in the file.
manager_read_metadata(meta) ==
  IF meta.state # "json" THEN None
  ELSE LET parsed == from_str(meta.model_short_name)
       IN Some([model_type |-> IF parsed.some THEN parsed.v ELSE DefaultModel,
                dimensions |-> meta.dimensions])

\* The stores get_search_db_paths finds, local first, each with its
\* metadata.json and with whether Database::new opens it.
FoundStores ==
  {<<>>}
  \cup {<<[db_type |-> t, meta |-> m, opens |-> o]>> :
          t \in DbTypes, m \in MetaFiles, o \in BOOLEAN}
  \cup {<<[db_type |-> "Local", meta |-> m1, opens |-> o1],
          [db_type |-> "Global", meta |-> m2, opens |-> o2]>> :
          m1 \in MetaFiles, m2 \in MetaFiles, o1 \in BOOLEAN, o2 \in BOOLEAN}

LoadErr(why) == [result |-> why, model_type |-> NoModel, dimensions |-> 0,
                 databases |-> <<>>]

\* DatabaseManager::load
load(db_paths) ==
  IF db_paths = <<>> THEN LoadErr("no_databases")
  ELSE LET read == manager_read_metadata(db_paths[1].meta)
           identity == IF read.some THEN read.v ELSE fallback
           opened == SelectSeq(db_paths, LAMBDA d : d.opens)
           databases == [i \in 1..Len(opened) |-> opened[i].db_type]
       IN IF databases = <<>> THEN LoadErr("failed_to_load")
          ELSE [result |-> "ok", model_type |-> identity.model_type,
                dimensions |-> identity.dimensions, databases |-> databases]

ManagerLoad(db_paths) ==
  /\ pure.fn = "none"
  /\ pure' = PureCall("load", db_paths, load(db_paths))
  /\ UNCHANGED <<idxVars, fedVars, cacheVars, svc, cacheStats>>

\* ------------------------------------------------------------------------
\* FileWatcher (src/watch/mod.rs)
\* ------------------------------------------------------------------------

\* Most events drained by one call.
MaxEvents == 3

\* A path the ignore rules match ("*.lock").
IgnoredPath == "c.lock"

WatchPaths == Paths \cup {IgnoredPath}

\* notify::EventKind, as far as the watcher tells the kinds apart.
EventKinds == {"create", "modify", "remove", "access"}

\* The debounced events waiting in the channel, oldest first, each with the
\* path it is about.
EventBatches ==
  UNION {[1..n -> [kind : EventKinds, path : WatchPaths]] : n \in 0..MaxEvents}

\* FileWatcher::should_ignore
should_ignore(path) == path = IgnoredPath

\* The positions of the events of a batch that change whether path exists.
Changes(batch, path) ==
  {i \in 1..Len(batch) : batch[i].path = path /\ batch[i].kind # "access"}

LastChange(batch, path) ==
  CHOOSE i \in Changes(batch, path) : \A j \in Changes(batch, path) : j <= i

\* path.exists() when the batch is processed: every event of the batch has
\* happened, so a path whose last change is a removal is gone.  All watched
\* paths exist before the batch.
path_exists(batch, path) ==
  Changes(batch, path) = {} \/ batch[LastChange(batch, path)].kind # "remove"

FileEventOf(kind, path) == [kind |-> kind, path |-> path]

\* The loop over the events of the drained results: ignored paths and paths
\* already seen are skipped, every other path is marked seen, and its event
\* is converted by kind.
RECURSIVE process_events(_, _, _, _)
process_events(batch, k, events, seen_paths) ==
  IF k > Len(batch) THEN events
  ELSE LET event == batch[k]
           path == event.path
       IN IF should_ignore(path) \/ path \in seen_paths
          THEN process_events(batch, k + 1, events, seen_paths)
          ELSE LET seen == seen_paths \cup {path}
               IN IF event.kind \in {"create", "modify"}
                  THEN process_events(batch, k + 1,
                         IF path_exists(batch, path)
                         THEN Append(events, FileEventOf("Modified", path))
                         ELSE events,
                         seen)
                  ELSE IF event.kind = "remove"
                  THEN process_events(batch, k + 1,
                         Append(events, FileEventOf("Deleted", path)), seen)
                  ELSE process_events(batch, k + 1, events, seen)

\* FileWatcher::poll_events: drains what the channel holds.
poll_events(batch) == process_events(batch, 1, <<>>, {})

\* FileWatcher::wait_for_events: waits for a first result, then drains the
\* rest; with nothing before the timeout it returns no event.
wait_for_events(batch) ==
  IF batch = <<>> THEN <<>> ELSE process_events(batch, 1, <<>>, {})

PollEvents(batch) ==
  /\ pure.fn = "none"
  /\ pure' = PureCall("poll_events", batch, poll_events(batch))
  /\ UNCHANGED <<idxVars, fedVars, cacheVars, svc, cacheStats>>

WaitForEvents(batch) ==
  /\ pure.fn = "none"
  /\ pure' = PureCall("wait_for_events", batch, wait_for_events(batch))
  /\ UNCHANGED <<idxVars, fedVars, cacheVars, svc, cacheStats>>

\* ------------------------------------------------------------------------
\* get_file_chunks and find_definitions (src/mcp/mod.rs)
\* ------------------------------------------------------------------------

\* Most ids a store has handed out.
MaxSlots == 3

\* request.limit.unwrap_or(20)
DefaultDefinitionsLimit == 20

\* Paths as chunks carry them, with or without a leading "./".
ChunkPaths == {"a.rs", "./a.rs", "b.rs"}

\* trim_start_matches("./")
trim_dot_slash(path) == IF path = "./a.rs" THEN "a.rs" ELSE path

ChunkKinds == {"Function", "Block"}

\* to_lowercase on the kinds.
kind_lower(kind) == IF kind = "Function" THEN "function" ELSE "block"

Tombstone == [live |-> FALSE, path |-> "-", kind |-> "-"]

LiveChunk(path, kind) == [live |-> TRUE, path |-> path, kind |-> kind]

\* A vector store after inserts and deletes: slot i + 1 holds the chunk
\* with id i, or the tombstone of a deleted chunk.  Ids are handed out in
\* order from 0 and never reused; every chunk holds the text "fn foo".
SlotStores ==
  UNION {[1..n -> {Tombstone} \cup {LiveChunk(p, k) : p \in ChunkPaths, k \in ChunkKinds}] :
           n \in 0..MaxSlots}

LiveSlotIds(store) == {i \in 0..(Len(store) - 1) : store[i + 1].live}

\* VectorStore::stats().total_chunks: the chunks the store holds.
stats_total_chunks(store) == Cardinality(LiveSlotIds(store))

\* VectorStore::get_chunk(id): Ok(Some(chunk)) for a live id.
get_chunk(store, id) ==
  IF id < Len(store) /\ store[id + 1].live THEN store[id + 1] ELSE Tombstone

\* The ids the store has handed out so far.
HandedOutIds(store) == 0..(Len(store) - 1)

\* for id in 0..stats.total_chunks as u32
ScannedIds(store) == 0..(stats_total_chunks(store) - 1)

\* chunk_path == req_path || chunk.path == request.path
path_matches(chunk_path, request_path) ==
  \/ trim_dot_slash(chunk_path) = trim_dot_slash(request_path)
  \/ chunk_path = request_path

\* get_file_chunks on one database: the ids of the chunks it returns,
\* sorted by start line, which is the order of the ids here.
get_file_chunks(store, request_path) ==
  LET hit(id) == get_chunk(store, id).live
                 /\ path_matches(get_chunk(store, id).path, request_path)
      RECURSIVE scan(_, _)
      scan(id, found) ==
        IF id \notin ScannedIds(store) THEN found
        ELSE scan(id + 1, IF hit(id) THEN Append(found, id) ELSE found)
  IN scan(0, <<>>)

NoKind == "-"

KindFilters == {NoKind, "function", "block"}

NoPattern == "-"

Patterns == {NoPattern, "FOO", "bar"}

\* chunk.content.to_lowercase().contains(&pattern.to_lowercase()) on the
\* text "fn foo".
content_matches(pattern) == pattern = "FOO"

\* The filters of find_definitions on one chunk: Block, Anchor and Other
\* are no definitions; the kind filter and the pattern apply when given.
is_definition(chunk, kind, pattern) ==
  /\ kind_lower(chunk.kind) \notin {"block", "anchor", "other"}
  /\ kind # NoKind => kind_lower(chunk.kind) = kind
  /\ pattern # NoPattern => content_matches(pattern)

\* find_definitions on one database: the ids of the definitions it returns;
\* the scan stops when limit definitions are collected.
find_definitions(store, kind, pattern, limit) ==
  LET hit(id) == get_chunk(store, id).live
                 /\ is_definition(get_chunk(store, id), kind, pattern)
      RECURSIVE scan(_, _)
      scan(id, found) ==
        IF id \notin ScannedIds(store) THEN found
        ELSE IF hit(id)
             THEN IF Len(found) + 1 >= limit THEN Append(found, id)
                  ELSE scan(id + 1, Append(found, id))
             ELSE scan(id + 1, found)
  IN scan(0, <<>>)

GetFileChunks(store, request_path) ==
  /\ pure.fn = "none"
  /\ pure' = PureCall("get_file_chunks",
                      [store |-> store, path |-> request_path],
                      get_file_chunks(store, request_path))
  /\ UNCHANGED <<idxVars, fedVars, cacheVars, svc, cacheStats>>

FindDefinitions(store, kind, pattern, limit) ==
  /\ pure.fn = "none"
  /\ pure' = PureCall("find_definitions",
                      [store |-> store, kind |-> kind, pattern |-> pattern,
                       limit |-> limit],
                      find_definitions(store, kind, pattern, limit))
  /\ UNCHANGED <<idxVars, fedVars, cacheVars, svc, cacheStats>>

\* ------------------------------------------------------------------------
\* FastEmbedder::embed_batch and its batch size (src/embed/embedder.rs)
\* ------------------------------------------------------------------------

\* DEMONGREP_BATCH_SIZE is not set.
NoEnv == "unset"

\* Values of DEMONGREP_BATCH_SIZE: unset, not a number, 0, a positive
\* number, a negative number.
EnvValues == {NoEnv, "abc", "0", "2", "-1"}

\* str::parse::<usize>
parse_usize(env_size) ==
  IF env_size = "0" THEN Some(0)
  ELSE IF env_size = "2" THEN Some(2)
  ELSE None

\* ModelType::dimensions over all models.
ModelDimensions == {384, 768, 1024}

\* env_size.parse().unwrap_or(256)
FallbackBatchSize == 256

SmallModelBatchSize == 256

MediumModelBatchSize == 128

LargeModelBatchSize == 64

SmallModelDimensions == 384

MediumModelDimensions == 768

\* FastEmbedder::resolve_batch_size
resolve_batch_size(env, dims) ==
  IF env # NoEnv
  THEN LET parsed == parse_usize(env)
       IN IF parsed.some THEN parsed.v ELSE FallbackBatchSize
  ELSE IF dims <= SmallModelDimensions THEN SmallModelBatchSize
  ELSE IF dims <= MediumModelDimensions THEN MediumModelBatchSize
  ELSE LargeModelBatchSize

\* FastEmbedder::embed_batch_refs
embed_batch_refs(texts, env, dims, fail_at) ==
  embed_batch_refs_chunked(texts, resolve_batch_size(env, dims), fail_at)

\* FastEmbedder::embed_batch
EmbedBatch(texts, env, dims, fail_at) ==
  /\ pure.fn = "none"
  /\ pure' = PureCall("embed_batch",
                      [texts |-> texts, env |-> env, dims |-> dims,
                       fail_at |-> fail_at,
                       batch_size |-> resolve_batch_size(env, dims)],
                      embed_batch_refs(texts, env, dims, fail_at))
  /\ UNCHANGED <<idxVars, fedVars, cacheVars, svc, cacheStats>>

\* ------------------------------------------------------------------------
\* Specifications
\* ------------------------------------------------------------------------

NoManager == <<>>

InitTree(contents) ==
  /\ fs \in [Paths -> contents \cup {Absent}]
  /\ stores = [d \in DbTypes |-> NoStore]
  /\ projects = FALSE
  /\ last = Outcome("init", "done", "ok")
  /\ mgr = NoManager
  /\ call = NoCall
  /\ cacheDb = EmptyCacheDb
  /\ cacheLog = EmptyCacheLog
  /\ cacheOp = NoCacheCall
  /\ pure = NoPure
  /\ svc = NoSvc
  /\ cacheStats = NoStats

\* One project with a local store: files are written, damaged and deleted
\* between index runs and searches with or without sync.
Init == InitTree(Contents)

Next ==
  \/ \E dry_run \in BOOLEAN : Index(FALSE, dry_run, DefaultModel)
  \/ \E p \in Paths, c \in Contents : WriteFile(p, c)
  \/ \E p \in Paths : DeleteFile(p)
  \/ \E sync \in BOOLEAN, vector_only_mode \in BOOLEAN : Search(sync, vector_only_mode)

Spec == Init /\ [][Next]_vars

\* One project indexed in either mode with any model, and cleared.
InitStores == InitTree({"one"})

NextStores ==
  \/ \E global \in BOOLEAN, dry_run \in BOOLEAN, model \in Models :
       Index(global, dry_run, model)
  \/ \E confirm \in BOOLEAN, by_project \in BOOLEAN : Clear(confirm, by_project)
  \/ \E p \in Paths : WriteFile(p, "one")
  \/ \E p \in Paths : DeleteFile(p)

SpecStores == InitStores /\ [][NextStores]_vars

\* The stores a DatabaseManager can have loaded.
ScoreLists == UNION {[1..n -> Levels] : n \in 0..MaxChunks}

\* FTS hits name each id once; id n + 1 is a document whose chunk is no
\* longer in the vector store.
FtsLists(n) ==
  {f \in UNION {[1..l -> 1..(n + 1)] : l \in 0..MaxFts} :
     \A i, j \in 1..Len(f) : i # j => f[i] # f[j]}

Databases(db_type) ==
  {d \in [db_type : {db_type}, mode : Modes, scores : ScoreLists,
          fts : FtsLists(MaxChunks)] :
     /\ d.fts \in FtsLists(Len(d.scores))
     /\ d.mode # "ok" => d.fts = <<>>}

Managers ==
  {<<l>> : l \in Databases("Local")}
  \cup {<<g>> : g \in Databases("Global")}
  \cup {<<l, g>> : l \in Databases("Local"), g \in Databases("Global")}

InitFed ==
  /\ fs = [p \in Paths |-> Absent]
  /\ stores = [d \in DbTypes |-> NoStore]
  /\ projects = FALSE
  /\ last = Outcome("init", "done", "ok")
  /\ mgr \in Managers
  /\ call = NoCall
  /\ cacheDb = EmptyCacheDb
  /\ cacheLog = EmptyCacheLog
  /\ cacheOp = NoCacheCall
  /\ pure = NoPure
  /\ svc = NoSvc
  /\ cacheStats = NoStats

NextFed ==
  \/ \E limit \in 1..MaxLimit, offset \in 0..MaxOffset : SearchAll(limit, offset)
  \/ \E limit \in 1..MaxLimit, offset \in 0..MaxOffset, k \in RrfKs :
       HybridSearchAll(limit, offset, k)

SpecFed == InitFed /\ [][NextFed]_vars

\* One cache directory used through the handles of the given models.
InitCache ==
  /\ fs = [p \in Paths |-> Absent]
  /\ stores = [d \in DbTypes |-> NoStore]
  /\ projects = FALSE
  /\ last = Outcome("init", "done", "ok")
  /\ mgr = NoManager
  /\ call = NoCall
  /\ cacheDb = EmptyCacheDb
  /\ cacheLog = EmptyCacheLog
  /\ cacheOp = NoCacheCall
  /\ pure = NoPure
  /\ svc = NoSvc
  /\ cacheStats = NoStats

NextCacheOf(models) ==
  \/ \E m \in models : CacheOpen(m)
  \/ \E m \in models, h \in HashStrings, v \in Vectors : CachePut(m, h, v)
  \/ \E m \in models, items \in Batches : CachePutBatch(m, items)
  \/ \E m \in models, h \in HashStrings : CacheGet(m, h)
  \/ \E m \in models : CacheLen(m)

\* The cache of one model.
NextCache == NextCacheOf({<<"m">>})

SpecCache == InitCache /\ [][NextCache]_vars

\* Two models sharing the directory.
NextCacheModels == NextCacheOf(ModelKeys)

SpecCacheModels == InitCache /\ [][NextCacheModels]_vars

\* limit_results_per_file on every ranked list, cap and limit.
NextPerFile ==
  \E results \in RankedLists, per_file \in 1..MaxPerFile, limit \in 0..MaxLimit + 1 :
    LimitResultsPerFile(results, per_file, limit)

SpecPerFile == InitCache /\ [][NextPerFile]_vars

\* The tokenizer on every text.
NextTokenizer == \E text \in Texts : TokenizeCode(text)

SpecTokenizer == InitCache /\ [][NextTokenizer]_vars

\* rrf_fusion on every pair of rankings.
NextRrf ==
  \E V \in VectorLists, F \in IdLists, k \in RrfKs : RrfFusion(V, F, k)

SpecRrf == InitCache /\ [][NextRrf]_vars

\* The reranking step on every candidate list and reranker behaviour.
NextRerank ==
  \/ \E results \in CandidateLists, rerank \in BOOLEAN,
        rerank_top \in 1..MaxResults, reranker \in Rerankers :
       ApplyOptionalRerank(results, rerank, rerank_top, reranker)
  \/ \E results \in CandidateLists, rerank \in BOOLEAN, reranker \in Rerankers :
       SearchRerank(results, rerank, reranker)

SpecRerank == InitCache /\ [][NextRerank]_vars

\* search() printing every page, run twice.
NextPrint ==
  \E page \in Pages, per_file \in 0..MaxPerFile, max_results \in 1..MaxLimit + 1,
     first \in IterationOrders, second \in IterationOrders :
    PrintResults(page, per_file, max_results, first, second)

SpecPrint == InitCache /\ [][NextPrint]_vars

\* One page of the query pipeline on every ranking.
NextPage ==
  \/ \E ranking \in RankedLists, filter_path \in PathFilters,
        per_file \in 1..MaxPerFile, limit \in 1..MaxLimit, offset \in 0..MaxOffset :
       McpSearchPage(ranking, filter_path, per_file, limit, offset)
  \/ \E ranking \in RankedLists, filter_path \in PathFilters,
        per_file \in 1..MaxPerFile, limit \in 1..MaxLimit, offset \in 0..MaxOffset :
       CliJsonPage(ranking, filter_path, per_file, limit, offset)

SpecPage == InitCache /\ [][NextPage]_vars

\* Reranking with a rerank_top, in the MCP tool and in search().
NextRerankTop ==
  \/ \E results \in CandidateLists, rerank \in BOOLEAN,
        rerank_top \in 1..MaxResults, reranker \in Rerankers :
       ApplyOptionalRerank(results, rerank, rerank_top, reranker)
  \/ \E fused \in CandidateLists, rerank \in BOOLEAN, rerank_top \in 1..MaxResults,
        max_results \in 1..MaxLimit, offset \in 0..MaxOffset, reranker \in Rerankers :
       SearchSelectRerank(fused, rerank, rerank_top, max_results, offset, reranker)

SpecRerankTop == InitCache /\ [][NextRerankTop]_vars

\* embed_batch_chunked on every list, mini-batch size and failing batch.
NextEmbed ==
  \E texts \in TextLists, batch_size \in 1..MaxBatchSize, fail_at \in 0..MaxTexts :
    EmbedBatchChunked(texts, batch_size, fail_at)

SpecEmbed == InitCache /\ [][NextEmbed]_vars

\* One process, the MCP server with its threads or one search() run, and
\* the models it loads.
InitModels ==
  /\ fs = [p \in Paths |-> Absent]
  /\ stores = [d \in DbTypes |-> NoStore]
  /\ projects = FALSE
  /\ last = Outcome("init", "done", "ok")
  /\ mgr = NoManager
  /\ call = NoCall
  /\ cacheDb = EmptyCacheDb
  /\ cacheLog = EmptyCacheLog
  /\ cacheOp = NoCacheCall
  /\ pure = NoPure
  /\ svc \in {Service(p) : p \in Processes}
  /\ cacheStats = NoStats

NextModels ==
  \/ \E t \in Threads : ToolCall(t)
  \/ \E t \in Threads, load_ok \in BOOLEAN : GetEmbeddingService(t, load_ok)
  \/ \E t \in Threads : EmbedQuery(t)
  \/ \E t \in Threads : EmbedQueryDone(t)
  \/ \E t \in Threads, rerank \in BOOLEAN, load_ok \in BOOLEAN : ApplyRerank(t, rerank, load_ok)
  \/ \E t \in Threads : ApplyRerankDone(t)
  \/ \E t \in Threads : ToolReturn(t)
  \/ \E load_ok \in BOOLEAN : SearchLoadModel(load_ok)
  \/ \E sync \in BOOLEAN, load_ok \in BOOLEAN : SearchEmbedded(sync, load_ok)
  \/ SearchSynced
  \/ \E rerank \in BOOLEAN, load_ok \in BOOLEAN : SearchNewReranker(rerank, load_ok)
  \/ SearchStep

SpecModels == InitModels /\ [][NextModels]_vars

\* One cache handle: puts, batches and gets whose read transaction opens or
\* fails, with the counters of the handle.
NextCacheStats ==
  \/ \E h \in HashStrings, v \in Vectors : CachePut(<<"m">>, h, v)
  \/ \E items \in Batches : CachePutBatch(<<"m">>, items)
  \/ \E h \in HashStrings, read_txn_ok \in BOOLEAN : CacheGetCounted(<<"m">>, h, read_txn_ok)

SpecCacheStats == InitCache /\ [][NextCacheStats]_vars

\* DatabaseManager::load on every set of stores found.
NextLoad == \E db_paths \in FoundStores : ManagerLoad(db_paths)

SpecLoad == InitCache /\ [][NextLoad]_vars

\* One drain of the watcher's channel, by either call, on every batch.
NextWatch ==
  \/ \E batch \in EventBatches : PollEvents(batch)
  \/ \E batch \in EventBatches : WaitForEvents(batch)

SpecWatch == InitCache /\ [][NextWatch]_vars

\* get_file_chunks and find_definitions on every store reachable by
\* inserts and deletes.
NextScan ==
  \/ \E store \in SlotStores, path \in ChunkPaths : GetFileChunks(store, path)
  \/ \E store \in SlotStores, kind \in KindFilters, pattern \in Patterns,
        limit \in {1, DefaultDefinitionsLimit} :
       FindDefinitions(store, kind, pattern, limit)

SpecScan == InitCache /\ [][NextScan]_vars

\* embed_batch on every list, override, model size and failing batch.
NextBatchSize ==
  \E texts \in TextLists, env \in EnvValues, dims \in ModelDimensions,
     fail_at \in 0..MaxTexts :
    EmbedBatch(texts, env, dims, fail_at)

SpecBatchSize == InitCache /\ [][NextBatchSize]_vars

\* ------------------------------------------------------------------------
\* Properties of the indexer and of sync
\* ------------------------------------------------------------------------

\* The step is an index() run or a sync_database() run that returned Ok.
OkRun ==
  /\ last'.result = "ok"
  /\ \/ last'.op = "index"
     \/ last'.op = "search" /\ last'.sync

\* Every id listed in FileMetadata is listed once, is live, and has at most
\* one FTS document; every live id is listed.
IdsConsistent(st) ==
  /\ \A p \in Paths : \A i, j \in 1..Len(st.fileMeta[p].ids) :
       i # j => st.fileMeta[p].ids[i] # st.fileMeta[p].ids[j]
  /\ \A p, q \in Paths :
       p # q => Range(st.fileMeta[p].ids) \cap Range(st.fileMeta[q].ids) = {}
  /\ \A i \in MetaIds(st) : st.fts[i] <= 1
  /\ MetaIds(st) = LiveIds(st)

\* C1: an index() or sync_database() run that returns Ok, started where the
\* ids of FileMetadata, vector store and FTS store agree, ends where they
\* agree: every listed id is live exactly once and at most once in the FTS
\* store, and the listed ids are exactly the live ids.
C1_IdsConsistentAfterOkRuns ==
  [][(OkRun /\ \A d \in DbTypes : IdsConsistent(stores[d]))
       => \A d \in DbTypes : IdsConsistent(stores'[d])]_vars

\* ------------------------------------------------------------------------
\* Properties of the store modes and of the model check
\* ------------------------------------------------------------------------

\* C2: the project never has a local and a global store at once, and an
\* index() call in the mode whose counterpart store exists returns an error
\* and leaves the stores as they were.
C2_LocalGlobalExclusive ==
  [][/\ ~(stores'["Local"].exists /\ stores'["Global"].exists)
     /\ \A global \in BOOLEAN, dry_run \in BOOLEAN, model \in Models :
          (/\ last'.op = "index"
           /\ stores[Counterpart(global)].exists
           /\ Index(global, dry_run, model))
            => (last'.result = "err" /\ stores' = stores)]_vars

\* An index() call was refused because the store of the other mode exists.
C2_Refused ==
  /\ last.op = "index"
  /\ last.exit \in {"local_exists", "global_exists"}
  /\ last.result = "err"
  /\ \E d \in DbTypes : stores[d].exists

\* index(global, dry_run, model) runs against its own existing store whose
\* recorded model is not the requested one.
OtherModelRun(global, dry_run, model) ==
  /\ last'.op = "index"
  /\ stores[DbOf(global)].exists
  /\ ~stores[Counterpart(global)].exists
  /\ stores[DbOf(global)].dbMeta # model
  /\ Index(global, dry_run, model)

\* C7 as stated: every index() run against a store recorded with another
\* model returns an error and leaves the stores identical.
C7_MismatchAlwaysFails ==
  [][\A global \in BOOLEAN, dry_run \in BOOLEAN, model \in Models :
       OtherModelRun(global, dry_run, model)
         => (last'.result = "err" /\ stores' = stores)]_vars

\* C7: an index() run against a store recorded with another model leaves
\* the stores identical; it returns the model-mismatch error unless it is a
\* dry run or discovers no file, in which case it returns Ok before the
\* store is opened.
C7_MismatchWritesNothing ==
  [][\A global \in BOOLEAN, dry_run \in BOOLEAN, model \in Models :
       OtherModelRun(global, dry_run, model)
         => /\ stores' = stores
            /\ IF Walk(fs) = <<>> \/ dry_run
               THEN last'.result = "ok"
               ELSE last'.result = "err" /\ last'.exit = "model_mismatch"]_vars

\* A run was refused for its model while the store holds chunks.
C7_Refused ==
  /\ last.op = "index"
  /\ last.exit = "model_mismatch"
  /\ \E d \in DbTypes : stores[d].exists /\ total_chunks(stores[d]) > 0

\* ------------------------------------------------------------------------
\* Properties of incremental runs
\* ------------------------------------------------------------------------

\* Every discovered file is reported unchanged and no indexed file is gone.
TreeUnchanged(st, tree) ==
  /\ st.exists
  /\ \A p \in Range(Walk(tree)) : ~check_file(st.fileMeta, tree, p).needs
  /\ find_deleted_files(st.fileMeta, tree) = <<>>

\* C8: an index() run with the store's model over a tree in which every
\* discovered file is unchanged and no indexed file was deleted embeds
\* nothing and leaves vector store, FTS store and FileMetadata as they were,
\* so that any number of such runs keeps the state of the first full index.
C8_UnchangedTreeNoWork ==
  [][\A dry_run \in BOOLEAN, model \in Models :
       (/\ last'.op = "index"
        /\ TreeUnchanged(stores["Local"], fs)
        /\ stores["Local"].dbMeta = model
        /\ Index(FALSE, dry_run, model))
         => (/\ last'.result = "ok"
             /\ last'.embedded = 0
             /\ stores' = stores
             /\ TreeUnchanged(stores'["Local"], fs'))]_vars

\* An incremental run found a store with chunks up to date.
C8_UpToDate ==
  /\ last.op = "index"
  /\ last.exit = "up_to_date"
  /\ total_chunks(stores["Local"]) > 0
  /\ TreeUnchanged(stores["Local"], fs)

\* The step is a search() with sync = true whose sync returned Ok.
SyncedSearch == last'.op = "search" /\ last'.sync /\ last'.result = "ok"

\* p is indexed in the local store and gone from disk.
DeletedOnDisk(p) == stores["Local"].fileMeta[p].present /\ fs[p] = Absent

\* p is the only difference between the tree and the local store's records.
OnlyDeletion(p) ==
  /\ find_deleted_files(stores["Local"].fileMeta, fs) = <<p>>
  /\ \A q \in Range(Walk(fs)) : ~check_file(stores["Local"].fileMeta, fs, q).needs

\* C9: after an indexed file is deleted on disk, a search() with sync = true
\* returns, in vector-only and in hybrid mode, no result with that file's
\* path and none of the chunk ids that belonged to it, and total_files is
\* one less than before the sync.
C9_DeletedFileLeavesResults ==
  [][\A p \in Paths :
       (SyncedSearch /\ DeletedOnDisk(p))
         => (/\ \A r \in last'.results :
                  r.path # p /\ r.id \notin Range(stores["Local"].fileMeta[p].ids)
             /\ OnlyDeletion(p)
                  => total_files(stores'["Local"]) = total_files(stores["Local"]) - 1)]_vars

\* C10: a completed index() or sync_database() run started with the FTS ids
\* equal to the live vector ids ends with them equal.
C10_FtsLockStep ==
  [][(OkRun /\ \A d \in DbTypes : FtsIds(stores[d]) = LiveIds(stores[d]))
       => \A d \in DbTypes : FtsIds(stores'[d]) = LiveIds(stores'[d])]_vars

\* ------------------------------------------------------------------------
\* Properties of the federated searches
\* ------------------------------------------------------------------------

\* The stores whose vector search answers.
Healthy(m) == SelectSeq(m, LAMBDA db : db.mode # "vec_err")

\* Every result every answering store has for the query, in store order.
AllVectorResults(m) ==
  Concat([i \in 1..Len(Healthy(m)) |->
            store_search(Healthy(m)[i], RetrievalCap).results])

\* The whole fused list of every answering store, in store order.
AllFusedResults(m, k) ==
  Concat([i \in 1..Len(Healthy(m)) |->
            LET db == Healthy(m)[i]
                V  == store_search(db, RetrievalCap).results
            IN Materialize(db, V, FuseStore(db, V, k))])

Keys(results) == [i \in 1..Len(results) |-> results[i].key]

NoRepeatedKey(results) ==
  \A i, j \in 1..Len(results) : i # j => results[i].key # results[j].key

\* C3: search_all(q, limit, offset) is positions [offset, offset + limit) of
\* search_all(q, limit + offset, 0), and the latter is the head of the
\* score-descending merge of all stores' results.
C3_SearchAllPagination ==
  call.fn = "search_all" =>
    LET whole == search_all(mgr, call.limit + call.offset, 0).results
    IN /\ call.out.ok
       /\ call.out.results = Slice(whole, call.offset, call.limit)
       /\ whole = Take(SortDesc(AllVectorResults(mgr)), call.limit + call.offset)

\* Local {a, c} and global {b} ranked a, b, c: limit 2, offset 1 gives [b, c].
C3_SecondPage ==
  /\ call.fn = "search_all"
  /\ call.limit = 2
  /\ call.offset = 1
  /\ Keys(call.out.results) = <<"b.rs", "c.rs">>
  /\ Keys(search_all(mgr, 3, 0).results) = <<"a.rs", "b.rs", "c.rs">>

\* C4: search_all returns no two results with the same (path, start_line,
\* end_line): of the copies of a key only the highest-scored is kept, and
\* the page is cut from the deduplicated ranking.
C4_SearchAllDeduplicates ==
  call.fn = "search_all" =>
    /\ NoRepeatedKey(call.out.results)
    /\ call.out.results =
         Slice(SortDesc(Dedup(AllVectorResults(mgr), <<>>)), call.offset, call.limit)

\* C5: hybrid_search_all returns positions [offset, offset + limit) of the
\* stores' fused lists concatenated, deduplicated by key keeping the highest
\* fused score, and sorted by descending fused score.
C5_HybridPagination ==
  call.fn = "hybrid_search_all" =>
    call.out.results =
      Slice(SortDesc(Dedup(AllFusedResults(mgr, call.k), <<>>)),
            call.offset, call.limit)

\* The last call repeated on a manager m.
SameCall(m) ==
  IF call.fn = "search_all"
  THEN search_all(m, call.limit, call.offset)
  ELSE hybrid_search_all(m, call.limit, call.offset, call.k)

\* A store whose FTS search fails, loaded without its FTS index instead.
WithoutFailingFts(m) ==
  [i \in 1..Len(m) |->
     IF m[i].mode = "fts_err" THEN [m[i] EXCEPT !.mode = "fts_none"] ELSE m[i]]

\* C6: when some but not all stores fail their vector search, search_all
\* and hybrid_search_all return Ok with the result of the same call on the
\* non-failing stores alone; a store whose FTS search fails contributes its
\* vector-only ranking.
C6_FailureIsolation ==
  (call.fn # "none" /\ Healthy(mgr) # <<>>) =>
    /\ call.out.ok
    /\ call.out = SameCall(Healthy(mgr))
    /\ call.out = SameCall(WithoutFailingFts(mgr))
    /\ \A i \in 1..Len(mgr) :
         mgr[i].mode = "fts_err" =>
           FuseStore(mgr[i], store_search(mgr[i], RetrievalCap).results, call.k)
             = vector_only(store_search(mgr[i], RetrievalCap).results)

\* A hybrid call on two stores, one failing its vector search and the other
\* its FTS search, returned the second store's vector ranking.
C6_OneStoreSkipped ==
  /\ call.fn = "hybrid_search_all"
  /\ Len(mgr) = 2
  /\ mgr[1].mode = "vec_err"
  /\ Len(mgr[1].scores) > 0
  /\ mgr[2].mode = "fts_err"
  /\ call.out.ok
  /\ Len(call.out.results) = 2
  /\ call.out.results = Slice(store_search(mgr[2], RetrievalCap).results,
                              call.offset, call.limit)

\* ------------------------------------------------------------------------
\* Properties of the persistent embedding cache
\* ------------------------------------------------------------------------

OtherModels(m) == ModelKeys \ {m}

HasColon(str) == \E i \in 1..Len(str) : str[i] = ":"

\* Something put under another model has the concatenation that (m, h) has,
\* the longer model id and the longer hash of the two containing a ':'.
KeyShared(m, h) ==
  \E a \in OtherModels(m), g \in HashStrings :
    /\ cacheLog[a][g].some
    /\ g \o <<":">> \o a = h \o <<":">> \o m
    /\ \/ HasColon(a) /\ HasColon(h)
       \/ HasColon(m) /\ HasColon(g)

PerFileCall == pure.fn = "limit_results_per_file"

KeptIds == {pure.out[i].id : i \in 1..Len(pure.out)}

\* Results of the input before position j that were kept.
KeptBefore(j) == {i \in KeptIds : i < j}

PerFileContract ==
  LET results == pure.in.results
      out == pure.out
  IN /\ Len(out) <= pure.in.limit
     /\ \A p \in Paths :
          Cardinality({i \in 1..Len(out) : out[i].path = p}) <= pure.in.per_file
     /\ \A i \in 1..Len(out) :
          /\ out[i].id \in 1..Len(results)
          /\ out[i] = results[out[i].id]
          /\ i > 1 => out[i - 1].id < out[i].id
     /\ \A j \in 1..Len(results) :
          j \notin KeptIds
            => \/ Cardinality({i \in KeptBefore(j) : results[i].path = results[j].path})
                    >= pure.in.per_file
               \/ Cardinality(KeptBefore(j)) >= pure.in.limit

is_lowercase(ch) == ch \in {"a", "b", "é"}

is_uppercase(ch) == ch \in {"B", "É"}

\* The reference splitting: identifier characters are letters, digits and '_'.
RefIdent(ch) == is_alphanumeric(ch) \/ ch = "_"

\* A token of the reference ends after position q of its run.
RefCut(text, q) ==
  \/ q = Len(text)
  \/ ~RefIdent(text[q + 1])
  \/ text[q + 1] = "_"
  \/ (is_lowercase(text[q]) \/ is_ascii_digit(text[q])) /\ is_uppercase(text[q + 1])
  \/ /\ is_uppercase(text[q]) /\ is_uppercase(text[q + 1])
     /\ q + 2 <= Len(text) /\ is_lowercase(text[q + 2])

RefLetter(text, q) == RefIdent(text[q]) /\ text[q] # "_"

RECURSIVE RefTokens(_, _, _)
RefTokens(text, q, open) ==
  IF q > Len(text) THEN <<>>
  ELSE IF ~RefLetter(text, q) THEN RefTokens(text, q + 1, <<>>)
  ELSE LET token == Append(open, to_lowercase_char(text[q]))
       IN IF RefCut(text, q) THEN <<token>> \o RefTokens(text, q + 1, <<>>)
          ELSE RefTokens(text, q + 1, token)

Reference(text) == RefTokens(text, 1, <<>>)

TokenizerCall == pure.fn = "tokenize_code"

\* C14: for every text the tokenizer emits exactly the tokens of the
\* reference splitting (runs of identifier characters, split at '_', then at
\* lower/digit-to-Upper and Acronym-to-Word transitions), every token
\* lowercased and non-empty.
C14_TokensOfReference ==
  TokenizerCall
    => /\ pure.out = Reference(pure.in)
       /\ \A i \in 1..Len(pure.out) :
            /\ pure.out[i] # <<>>
            /\ \A j \in 1..Len(pure.out[i]) : ~is_uppercase(pure.out[i][j])

IsAscii(text) == \A i \in 1..Len(text) : text[i] # "É"

\* The same for texts of ASCII characters.
AsciiTokensOfReference ==
  (TokenizerCall /\ IsAscii(pure.in)) => pure.out = Reference(pure.in)

\* ------------------------------------------------------------------------
\* Properties of rank fusion
\* ------------------------------------------------------------------------

RrfCall == pure.fn = "rrf_fusion"

VIds == [i \in 1..Len(pure.in.V) |-> pure.in.V[i].id]

\* Position of an id in a fused list, 0 when absent.
PosIn(fused, id) ==
  IF \E i \in 1..Len(fused) : fused[i].chunk_id = id
  THEN CHOOSE i \in 1..Len(fused) : fused[i].chunk_id = id
  ELSE 0

VScore(id) == IF RankIn(VIds, id) > 0 THEN pure.in.V[RankIn(VIds, id)].score ELSE 0

\* 1/(k + rank) in units of 1/ScoreUnit, which every k + rank divides; a
\* source in which the id is absent (rank 0) adds nothing.
Reciprocal(k, rank) == IF rank = 0 THEN 0 ELSE ScoreUnit \div (k + rank)

ExactScore(score, k, rv, rf) ==
  /\ rv > 0 => ScoreUnit % (k + rv) = 0
  /\ rf > 0 => ScoreUnit % (k + rf) = 0
  /\ score = Reciprocal(k, rv) + Reciprocal(k, rf)

\* C15: rrf_fusion(V, F, k) holds every id of V and F exactly once, each with
\* score exactly 1/(k + r_V) + 1/(k + r_F), by descending score, ties by
\* vector score and then by chunk id; with the two lists swapped every id has
\* the same score and ids of different score keep their order.
C15_RrfFusion ==
  RrfCall =>
    LET fused == pure.out.fused
        swapped == pure.out.swapped
        k == pure.in.k
        all == Range(VIds) \cup Range(pure.in.F)
    IN /\ Len(fused) = Cardinality(all)
       /\ \A id \in all : PosIn(fused, id) > 0
       /\ \A i \in 1..Len(fused) :
            ExactScore(fused[i].rrf_score, k, RankIn(VIds, fused[i].chunk_id),
                       RankIn(pure.in.F, fused[i].chunk_id))
       /\ \A i \in 1..Len(fused) - 1 :
            LET a == fused[i]
                b == fused[i + 1]
            IN \/ a.rrf_score > b.rrf_score
               \/ /\ a.rrf_score = b.rrf_score
                  /\ VScore(a.chunk_id) > VScore(b.chunk_id)
               \/ /\ a.rrf_score = b.rrf_score
                  /\ VScore(a.chunk_id) = VScore(b.chunk_id)
                  /\ a.chunk_id < b.chunk_id
       /\ Len(swapped) = Len(fused)
       /\ \A id \in all :
            /\ PosIn(swapped, id) > 0
            /\ swapped[PosIn(swapped, id)].rrf_score = fused[PosIn(fused, id)].rrf_score
       /\ \A a, b \in all :
            (fused[PosIn(fused, a)].rrf_score > fused[PosIn(fused, b)].rrf_score
               /\ PosIn(fused, a) < PosIn(fused, b))
              => PosIn(swapped, a) < PosIn(swapped, b)

\* An id in both lists at different ranks, another in one list only, and two
\* ids of equal fused score that trade places when the lists are swapped.
C15_TieAndBoth ==
  /\ RrfCall
  /\ \E id \in Ids :
       /\ RankIn(VIds, id) > 0 /\ RankIn(pure.in.F, id) > 0
       /\ RankIn(VIds, id) # RankIn(pure.in.F, id)
  /\ \E id \in Ids : RankIn(VIds, id) > 0 /\ RankIn(pure.in.F, id) = 0
  /\ \E a, b \in Ids :
       /\ PosIn(pure.out.fused, a) > 0 /\ PosIn(pure.out.fused, b) > 0
       /\ PosIn(pure.out.fused, a) < PosIn(pure.out.fused, b)
       /\ PosIn(pure.out.swapped, a) > PosIn(pure.out.swapped, b)

\* ------------------------------------------------------------------------
\* Properties of the reranking step
\* ------------------------------------------------------------------------

RerankCall == pure.fn \in {"apply_optional_rerank", "search_rerank"}

RerankFailed ==
  /\ RerankCall
  /\ pure.in.rerank
  /\ pure.in.reranker \in {"load_err", "blend_err"}

\* C16: when reranking is requested and the reranker fails to load or to
\* blend, the step returns the candidates in their order, with their scores
\* and with no rerank score set.
C16_RerankFailureIsNoOp ==
  RerankFailed
    => /\ pure.out = pure.in.results
       /\ \A i \in 1..Len(pure.out) : ~pure.out[i].rerank_score.some

\* The failing reranker was given the head of a longer candidate list.
C16_FailedOnPartOfList ==
  /\ RerankFailed
  /\ pure.fn = "apply_optional_rerank"
  /\ pure.in.rerank_top < Len(pure.in.results)
  /\ pure.in.rerank_top >= 2

\* ------------------------------------------------------------------------
\* Determinism of the search output
\* ------------------------------------------------------------------------

\* Results of equal score come in ascending chunk id.
TiesByChunkId(results) ==
  \A i \in 1..Len(results) - 1 :
    results[i].score = results[i + 1].score => results[i].id < results[i + 1].id

\* C17: two executions of search on the same store contents and parameters
\* print the same results in the same order, and results of equal score come
\* in ascending chunk id.
C17_DeterministicOrder ==
  pure.fn = "print_results"
    => /\ pure.out.first = pure.out.second
       /\ TiesByChunkId(pure.out.first)

\* The first half alone: the two executions print the same.
SamePrintTwice ==
  pure.fn = "print_results" => pure.out.first = pure.out.second

\* search_all: results of equal score come in ascending chunk id, whatever
\* store they are from.
FederatedTiesByChunkId ==
  call.fn = "search_all" => TiesByChunkId(call.out.results)

\* ------------------------------------------------------------------------
\* Properties of the storage phase of index()
\* ------------------------------------------------------------------------

StoragePhaseRun == last.op = "index" /\ last.exit = "done"

\* C18: an index() run that reaches the storage phase calls FtsStore.commit()
\* exactly once, after every delete_chunk and add_chunk of the run.
C18_SingleFtsCommit ==
  StoragePhaseRun
    => /\ Cardinality({k \in 1..Len(last.fts_calls) : last.fts_calls[k] = "commit"}) = 1
       /\ last.fts_calls[Len(last.fts_calls)] = "commit"

\* ------------------------------------------------------------------------
\* Properties of runs that meet a failure
\* ------------------------------------------------------------------------

\* The step is an index() run that reached the storage phase, or a search()
\* that ran sync_database.
IndexOrSyncRun ==
  \/ last'.op = "index" /\ last'.exit = "done"
  \/ last'.op = "search" /\ last'.sync /\ last'.exit # "no_db"

\* p is indexed with live chunks, has changed on disk, and can no longer be
\* read or chunked.
ChangedUnprocessable(p) ==
  LET fm == stores["Local"].fileMeta[p]
  IN /\ fm.present
     /\ fm.ids # <<>>
     /\ Range(fm.ids) \subseteq LiveIds(stores["Local"])
     /\ fs[p] # Absent
     /\ fs[p] # fm.hash
     /\ ~(read_to_string_ok(fs[p]) /\ chunk_semantic_ok(fs[p]))

\* C19: a changed file that cannot be read or chunked during an index() or
\* sync_database() run is in its prior state after the run: its FileMetadata
\* entry is unchanged and its chunks are still live.
C19_FailedFileKeepsPriorState ==
  [][\A p \in Paths :
       (IndexOrSyncRun /\ ChangedUnprocessable(p))
         => /\ stores'["Local"].fileMeta[p] = stores["Local"].fileMeta[p]
            /\ Range(stores["Local"].fileMeta[p].ids)
                 \subseteq LiveIds(stores'["Local"])]_vars

\* Every live chunk id is listed by exactly one FileMetadata entry.
AllOwned(st) ==
  \A i \in LiveIds(st) :
    Cardinality({p \in Paths : i \in Range(st.fileMeta[p].ids)}) = 1

\* The step is an index() run or a sync_database() run that went through to
\* its end.
CompletedRun ==
  \/ last'.op = "index" /\ last'.exit \in {"done", "up_to_date"}
  \/ last'.op = "search" /\ last'.sync /\ last'.result = "ok"
       /\ last'.exit # "no_db"

\* The step is a sync_database() run that returned an error part-way.
AbortedRun == last'.op = "search" /\ last'.sync /\ last'.exit = "sync_failed"

\* C20: whatever runs were aborted before it, a run that completes ends with
\* every live chunk id owned by exactly one FileMetadata entry: no chunk
\* inserted by an aborted run is left behind unowned.
C20_CompletedRunRestoresOwnership ==
  [][CompletedRun => AllOwned(stores'["Local"])]_vars

\* Completed runs keep ownership where it holds: unowned chunks come from
\* aborted runs only.
CompletedRunKeepsOwnership ==
  [][(CompletedRun /\ AllOwned(stores["Local"]))
       => AllOwned(stores'["Local"])]_vars

\* An aborted run keeps ownership too.
AbortedRunKeepsOwnership ==
  [][(AbortedRun /\ AllOwned(stores["Local"]))
       => AllOwned(stores'["Local"])]_vars

\* ------------------------------------------------------------------------
\* Properties of the query pipeline
\* ------------------------------------------------------------------------

PageCall == pure.fn \in {"mcp_search_page", "cli_json_page"}

\* At most per_file results of each path, in ranking order, nothing else
\* dropped.
RECURSIVE Diversified(_, _, _)
Diversified(results, per_file, kept) ==
  IF results = <<>> THEN <<>>
  ELSE LET r == Head(results)
           n == Cardinality({i \in 1..Len(kept) : kept[i].path = r.path})
       IN IF n >= per_file THEN Diversified(Tail(results), per_file, kept)
          ELSE <<r>> \o Diversified(Tail(results), per_file, Append(kept, r))

\* Positions [offset, offset + limit) of the filtered, diversified ranking.
ReferencePage ==
  LET kept == SelectSeq(pure.in.ranking,
                        LAMBDA r : pure.in.filter_path = NoFilter
                                     \/ r.path = pure.in.filter_path)
  IN SubSeq(Diversified(kept, pure.in.per_file, <<>>),
            pure.in.offset + 1,
            IF pure.in.offset + pure.in.limit < Len(Diversified(kept, pure.in.per_file, <<>>))
            THEN pure.in.offset + pure.in.limit
            ELSE Len(Diversified(kept, pure.in.per_file, <<>>)))

\* C21: the page returned by the query pipeline is positions
\* [offset, offset + limit) of the filtered, per-file-diversified ranking,
\* and holds at most per_file hits of any file.
C21_FiltersBeforePagination ==
  PageCall
    => /\ pure.out = ReferencePage
       /\ \A p \in Paths :
            Cardinality({i \in 1..Len(pure.out) : pure.out[i].path = p})
              <= pure.in.per_file

\* The MCP tools alone.
McpFiltersBeforePagination ==
  pure.fn = "mcp_search_page" => pure.out = ReferencePage

\* ------------------------------------------------------------------------
\* Properties of reranking with rerank_top
\* ------------------------------------------------------------------------

\* Reranking was requested and the reranker answered.
Reranked ==
  /\ pure.fn \in {"apply_optional_rerank", "search_select_rerank"}
  /\ pure.in.rerank
  /\ pure.in.reranker \in {"reverse", "same"}

\* Only the first min(rerank_top, M) candidates are rescored and reordered,
\* the others follow unchanged, and no candidate is lost or repeated.
TopRescoredTailKept ==
  LET results == pure.in.results
      out == pure.out
      top_n == Min(pure.in.rerank_top, Len(results))
  IN /\ Len(out) = Len(results)
     /\ {out[i].id : i \in 1..Len(out)} = {results[i].id : i \in 1..Len(results)}
     /\ \A i \in 1..Len(out) :
          IF i <= top_n
          THEN /\ out[i].rerank_score.some
               /\ \E j \in 1..top_n : results[j].id = out[i].id
          ELSE out[i] = results[i]

\* C22: with rerank_top = N on M candidates only the first min(N, M) are
\* rescored and reordered, the rest keep their order behind them, and the
\* output is a permutation of the input.
C22_OnlyTopReranked == Reranked => TopRescoredTailKept

\* The MCP tool alone.
McpOnlyTopReranked ==
  (Reranked /\ pure.fn = "apply_optional_rerank") => TopRescoredTailKept

\* ------------------------------------------------------------------------
\* Properties of the embedder's mini-batches
\* ------------------------------------------------------------------------

ChunkedCall == pure.fn = "embed_batch_chunked"

\* Number of mini-batches of n texts.
NumBatches(n, batch_size) == (n + batch_size - 1) \div batch_size

\* C23: for every list and mini-batch size >= 1, embed_batch returns one
\* embedding per text in input order, the same as one batch over the whole
\* list; when inference fails on a mini-batch the call returns an error with
\* no partial result, and no mini-batch is attempted twice.
C23_BatchesPreserveOrder ==
  ChunkedCall =>
    LET texts == pure.in.texts
        n == NumBatches(Len(texts), pure.in.batch_size)
        fails == pure.in.fail_at \in 1..n
    IN /\ pure.out.result = (IF fails THEN "err" ELSE "ok")
       /\ ~fails => /\ Len(pure.out.embeddings) = Len(texts)
                    /\ pure.out.embeddings = model_embed(texts)
                    /\ pure.out.attempts = [k \in 1..n |-> k]
       /\ fails => /\ pure.out.embeddings = <<>>
                   /\ pure.out.attempts = [k \in 1..pure.in.fail_at |-> k]

\* A list of different texts that took several mini-batches, the last one
\* short of the mini-batch size.
C23_SeveralBatches ==
  /\ ChunkedCall
  /\ pure.out.result = "ok"
  /\ Len(pure.out.attempts) >= 2
  /\ Len(pure.in.texts) % pure.in.batch_size # 0
  /\ \E i, j \in 1..Len(pure.in.texts) : pure.in.texts[i] # pure.in.texts[j]

\* ------------------------------------------------------------------------
\* Properties of the model instances of a process
\* ------------------------------------------------------------------------

\* C24: in one process at most one embedder model instance and at most one
\* reranker model instance are ever created, and no two embed calls and no
\* two rerank calls overlap.
C24_OneInstanceEach ==
  /\ svc.embedders <= 1
  /\ svc.rerankers <= 1
  /\ Cardinality(Embedding) <= 1
  /\ Cardinality(Reranking) <= 1

\* The MCP server creates at most one embedder, on the first tool call that
\* gets it, and its embed and rerank calls never overlap: every tool call
\* holds the service mutex from its start to its return.
McpOneEmbedder ==
  svc.process = "mcp" =>
    /\ svc.embedders <= 1
    /\ (svc.embedders = 1) = svc.service
    /\ Cardinality(Embedding \cup Reranking) <= 1

\* ------------------------------------------------------------------------
\* Properties of the cache counters
\* ------------------------------------------------------------------------

\* C25: on one cache handle every completed get increments exactly one of
\* the two counters: hits + misses is the number of completed gets, hits is
\* the number of gets that returned a value, and put and put_batch change
\* neither counter.
C25_CountersMatchGets ==
  /\ cacheStats.hits + cacheStats.misses = cacheStats.gets
  /\ cacheStats.hits = cacheStats.found

\* hits counts the gets that returned a value, and a get never counts twice.
HitsAreValues ==
  /\ cacheStats.hits = cacheStats.found
  /\ cacheStats.hits + cacheStats.misses <= cacheStats.gets

\* put and put_batch leave the counters as they are.
PutsKeepCounters ==
  [][cacheOp'.fn \in {"put", "put_batch"} => cacheStats' = cacheStats]_vars

\* ------------------------------------------------------------------------
\* Properties of a dry run
\* ------------------------------------------------------------------------

\* The step is an index() run with dry_run set that found files to index.
DryRun == last'.op = "index" /\ last'.exit = "dry_run"

\* C26: index() with dry_run = true leaves all persistent state unchanged,
\* in local and in global mode: no store is created or modified and the
\* project registry gains or changes no entry.
C26_DryRunChangesNothing ==
  [][DryRun => (stores' = stores /\ projects' = projects)]_vars

\* A dry run creates and modifies no store; the registry is the only
\* persistent state it can change.
DryRunKeepsStores ==
  [][DryRun => (stores' = stores /\ fs' = fs)]_vars

\* ------------------------------------------------------------------------
\* Properties of DatabaseManager::load
\* ------------------------------------------------------------------------

Loaded == pure.fn = "load" /\ pure.out.result = "ok"

\* C27: every DatabaseManager returned by load() holds a consistent model
\* identity, dimensions() = model_type().dimensions(), whether metadata.json
\* of the first store is present, missing, unparsable or names an unknown
\* model, and it holds at least one database.
C27_ConsistentModelIdentity ==
  Loaded =>
    /\ pure.out.dimensions = dimensions(pure.out.model_type)
    /\ Len(pure.out.databases) >= 1

\* A manager that load() returns holds at least one database, and its
\* identity is consistent when metadata.json of the first store was written
\* by index() for a model this build knows.
LoadedFromIndexedStore ==
  Loaded =>
    /\ Len(pure.out.databases) >= 1
    /\ (pure.in[1].meta.state = "json" /\ pure.in[1].meta.model_short_name \in Models)
         => /\ pure.out.model_type = pure.in[1].meta.model_short_name
            /\ pure.out.dimensions = dimensions(pure.out.model_type)

\* ------------------------------------------------------------------------
\* Properties of the file watcher
\* ------------------------------------------------------------------------

Drained == pure.fn \in {"poll_events", "wait_for_events"}

EventsOf(path) == {i \in 1..Len(pure.out) : pure.out[i].path = path}

\* The last event of the drained batch about path is a removal.
RemovedLast(path) ==
  /\ Changes(pure.in, path) # {}
  /\ pure.in[LastChange(pure.in, path)].kind = "remove"

\* C28: in the events of one poll_events or wait_for_events call each
\* non-ignored path has at most one FileEvent, and the event reflects the
\* final state of the path in the batch: a path whose last event is a
\* removal yields Deleted(path), even after a create or modify event for it
\* in the same batch.
C28_FinalStateWins ==
  Drained =>
    \A path \in WatchPaths \ {IgnoredPath} :
      /\ Cardinality(EventsOf(path)) <= 1
      /\ RemovedLast(path) =>
           \E i \in EventsOf(path) : pure.out[i].kind = "Deleted"

\* Each path has at most one event, ignored paths have none, and every
\* event is about a path of the batch.
OneEventPerPath ==
  Drained =>
    /\ \A path \in WatchPaths : Cardinality(EventsOf(path)) <= 1
    /\ EventsOf(IgnoredPath) = {}
    /\ \A i \in 1..Len(pure.out) :
         \E k \in 1..Len(pure.in) : pure.in[k].path = pure.out[i].path

\* ------------------------------------------------------------------------
\* Properties of get_file_chunks and find_definitions
\* ------------------------------------------------------------------------

\* The live chunks of the store a get_file_chunks call has to return.
LiveFileChunks ==
  {id \in LiveSlotIds(pure.in.store) :
     path_matches(pure.in.store[id + 1].path, pure.in.path)}

\* The live definitions a find_definitions call has to return.
LiveDefinitions ==
  {id \in LiveSlotIds(pure.in.store) :
     is_definition(pure.in.store[id + 1], pure.in.kind, pure.in.pattern)}

\* C29: in every store reachable by inserting and deleting chunks
\* get_file_chunks(path) returns every live chunk whose path matches, and
\* find_definitions with a large enough limit returns every live definition
\* that matches its filters: none is missed because its id is at or above
\* total_chunks.
C29_NoLiveChunkMissed ==
  /\ pure.fn = "get_file_chunks" => LiveFileChunks \subseteq Range(pure.out)
  /\ (pure.fn = "find_definitions" /\ pure.in.limit >= MaxSlots + 1)
       => LiveDefinitions \subseteq Range(pure.out)

\* What the two calls return is live and matches, each chunk once; and on a
\* store without tombstones nothing is missed.
ScanSoundAndCompleteWithoutDeletes ==
  /\ pure.fn = "get_file_chunks" =>
       /\ Range(pure.out) \subseteq LiveFileChunks
       /\ Cardinality(Range(pure.out)) = Len(pure.out)
       /\ LiveSlotIds(pure.in.store) = HandedOutIds(pure.in.store)
            => Range(pure.out) = LiveFileChunks
  /\ pure.fn = "find_definitions" =>
       /\ Range(pure.out) \subseteq LiveDefinitions
       /\ Len(pure.out) <= pure.in.limit
       /\ (LiveSlotIds(pure.in.store) = HandedOutIds(pure.in.store)
           /\ pure.in.limit >= MaxSlots + 1)
            => Range(pure.out) = LiveDefinitions

\* ------------------------------------------------------------------------
\* Properties of the batch size
\* ------------------------------------------------------------------------

\* Without an override the size is 256 up to 384 dimensions, 128 up to 768
\* and 64 above.
DefaultSize(dims) == IF dims <= 384 THEN 256 ELSE IF dims <= 768 THEN 128 ELSE 64

\* C30: for every value of DEMONGREP_BATCH_SIZE (unset, not a number, 0 or
\* positive) resolve_batch_size gives a mini-batch size of at least 1 and
\* embed_batch ends without a panic; without an override the size is 256,
\* 128 or 64 by the dimensions of the model.
C30_BatchSizeAtLeastOne ==
  pure.fn = "embed_batch" =>
    /\ pure.in.batch_size >= 1
    /\ pure.out.result # "panic"
    /\ pure.in.env = NoEnv => pure.in.batch_size = DefaultSize(pure.in.dims)

\* The defaults are as stated, an override that is not a number gives 256,
\* and embed_batch panics only with an override of 0 and texts to embed.
BatchSizeUnlessZero ==
  pure.fn = "embed_batch" =>
    /\ pure.in.env = NoEnv => pure.in.batch_size = DefaultSize(pure.in.dims)
    /\ pure.in.env \in {"abc", "-1"} => pure.in.batch_size = 256
    /\ pure.out.result = "panic" <=> (pure.in.env = "0" /\ pure.in.texts # <<>>)
    /\ pure.in.env # "0" => pure.in.batch_size >= 1

====
